---- MODULE Spec2Model ----
(***************************************************************************)
(* Verification model of the LocalWhispr daemon (src/localwhispr/server.py *)
(* with the recorders of src/visionflow/recorder.py and meeting.py).       *)
(*                                                                         *)
(* Session part: the command-dispatch thread runs one handler at a time    *)
(* (asyncio event loop, LocalWhisprDaemon._dispatch); each pipeline worker *)
(* is a threading.Thread whose try-block touches no field of the app and   *)
(* whose finally-block writes the app's fields one assignment at a time.   *)
(* A handler is one action; a worker is a small program with a pc.  The    *)
(* handlers read each shared field before any write that depends on it, so *)
(* every interleaving of a worker's assignment inside a handler ends in    *)
(* the state of one of the orders "assignment, handler" or "handler,       *)
(* assignment", both of which the model has.                               *)
(*                                                                         *)
(* Merge part: _merge_speaker_segments as an operator over bounded segment *)
(* lists.                                                                  *)
(***************************************************************************)
EXTENDS Integers, Sequences, FiniteSets, TLC

VARIABLES
    _recording,        \* LocalWhisprApp._recording
    _processing,       \* LocalWhisprApp._processing
    _mode,             \* LocalWhisprApp._mode ("" = no mode)
    _capture_monitor,  \* LocalWhisprApp._capture_monitor (configuration)
    _meeting_config,   \* TRUE when LocalWhisprApp._meeting_config is set
    _recorder,         \* the shared AudioRecorder
    _dual_recorder,    \* LocalWhisprApp._dual_recorder (present = FALSE: None)
    _meeting_recorder, \* LocalWhisprApp._meeting_recorder (present = FALSE: None)
    workers,           \* the pipeline threads alive, oldest first
    unreferenced,      \* the recorder objects the app no longer refers to
    lastOp,            \* the step just taken: operation, input, response, effects
    mic_segments,      \* _merge_speaker_segments: first argument
    monitor_segments,  \* _merge_speaker_segments: second argument
    merged,            \* _merge_speaker_segments: the returned text, as tokens
    merge_pc,          \* "idle", "ready" (arguments chosen) or "done" (returned)
    audio,             \* transcribe_meeting: len(audio), the samples of the file
    sample_rate,       \* transcribe_meeting: the frame rate of the file
    st_size,           \* transcribe_meeting: the size of the file in bytes
    segments,          \* what the recognizer answers for each chunk
    requests,          \* the chunks handed to the recognizer: <<start, end>>
    tm_parts,          \* transcribe_meeting: parts, the emitted lines
    tm_pc,             \* "idle", "ready" or "done"
    word_count,        \* generate_summary: the words of the transcription
    ollama,            \* what the model server does: per block, and for the meta-summary
    gs_requests,       \* the generation requests sent, in order
    gs_result,         \* generate_summary: the returned text, as tokens
    gs_pc,             \* "idle", "ready" or "done"
    wav_layout,        \* the layout of the file a WavTailMonitor watches
    file,              \* that file on disk: whether it exists, and its size
    monitor,           \* the fields of the WavTailMonitor
    poll,              \* the step just taken on the monitor or its file
    cap_site,          \* which recorder is exercised: "dual" or "meeting"
    cap_plan,          \* how the capture processes behave once spawned
    tmp_file,          \* the DualRecorder's temporary monitor file: what the
                       \* capture leaves there (writes), what is there (disk)
    cap_dual,          \* a DualRecorder
    cap_meeting,       \* a MeetingRecorder
    procs,             \* the capture processes the recorder refers to
    ladder,            \* where stop() stands: process, last signal, clock
    sent,              \* the signals stop() has sent to each process
    cap_last,          \* the last call on the recorder and what it returned
    gen,               \* a text-generation call: function, input, service, screenshot
    gen_ret,           \* what the call did: raised, or the value returned
    gen_typed,         \* what the pipeline then handed to type_text
    gen_pc,            \* "idle", "ready", "returned" or "delivered"
    ar,                \* an AudioRecorder: _recording, _frames, _stream
    ar_main,           \* where its caller stands inside start() or stop()
    ar_cb,             \* where the stream's callback context stands
    ar_ret,            \* the length of the buffer the last stop() returned
    ar_stops,          \* the stop() calls that returned since the last start() call
    conn,              \* the daemon's last client connection, and whether it serves
    wall_clock,        \* datetime.now(), in ticks
    meeting_rec,       \* the MeetingRecorder the app holds: recording, _output_dir
    session_dirs,      \* the output directory of each meeting capture started
    mono,              \* time.monotonic(), in seconds since the monitor was made
    heard,             \* the time of the latest poll that returned a raw RMS above the threshold
    mix_in,            \* what _read_wav_as_mono_16k gave _mix_audio for mic and monitor
    mix_out,           \* the samples _mix_audio wrote to combined.wav
    mix_pc,            \* "ready" or "done"
    hk_config,         \* HotkeyConfig: dictation, screenshot_command, mode
    hk,                \* a HotkeyListener: _pressed_keys, the two flags, the press time
    hk_now,            \* time.monotonic() of the listener, in ticks
    hk_last            \* the last key event and the callbacks it called

sessionFields == <<_recording, _processing, _mode, _capture_monitor, _meeting_config>>
recorderFields == <<_recorder, _dual_recorder, _meeting_recorder, unreferenced>>
sessionVars == <<sessionFields, recorderFields, workers, lastOp>>
mergeVars == <<mic_segments, monitor_segments, merged, merge_pc>>
chunkVars == <<audio, sample_rate, st_size, segments, requests, tm_parts, tm_pc>>
\* the variables of the functions checked apart from the daemon
summaryVars == <<word_count, ollama, gs_requests, gs_result, gs_pc>>
monitorVars == <<wav_layout, file, monitor, poll>>
captureVars == <<cap_site, cap_plan, tmp_file, cap_dual, cap_meeting, procs, ladder, sent, cap_last>>
generationVars == <<gen, gen_ret, gen_typed, gen_pc>>
threadVars == <<ar, ar_main, ar_cb, ar_ret, ar_stops>>
daemonVars == <<conn>>
dirVars == <<wall_clock, meeting_rec, session_dirs>>
silenceVars == <<mono, heard>>
mixVars == <<mix_in, mix_out, mix_pc>>
hotkeyVars == <<hk_config, hk, hk_now, hk_last>>
functionVars == <<mergeVars, chunkVars, summaryVars, monitorVars, captureVars, generationVars, threadVars, daemonVars, dirVars, silenceVars, mixVars, hotkeyVars>>
vars == <<sessionVars, functionVars>>

-----------------------------------------------------------------------------
(* Bounds of the model *)

MaxWorkers == 2     \* pipeline threads alive at once
MaxMixLen == 2      \* samples of the longest source _mix_audio is given
MaxStops == 2        \* stop() calls counted after a start() call
MaxHkTime == 2      \* ticks a HotkeyListener is watched for
HoldTicks == 1      \* HotkeyConfig.hold_threshold_ms, in ticks
MaxMono == 6        \* seconds a monitor is watched for
MaxBlocks == 1      \* callback blocks one capture accumulates
MaxSegs == 2        \* segments the recognizer returns for one source
MaxTime == 5        \* latest start time of a segment
MaxSamples == 700   \* samples of the longest file transcribe_meeting is given
MaxWords == 6000    \* words of the longest transcription generate_summary is given
MaxExtras == 2      \* chunks between fmt and data in a watched file
MaxDelay == 6       \* seconds a capture process takes to exit on a signal
MaxFrames == 3      \* blocks the callback appends during one recording
MaxClock == 8       \* ticks of the wall clock during a run
MaxSessions == 3    \* meeting captures started during a run

(* Program constants *)

MIN_WAV_BYTES == 1000   \* the "too short" threshold of the stop handlers
BLOCKSIZE == 1024       \* frames per callback block
SAMPLE_WIDTH == 2       \* bytes per 16-bit sample
CHANNELS == 1           \* AudioConfig.channels
WAV_HEADER_BYTES == 44  \* header the wave module writes before the frames
CHUNK_DURATION_S == 300 \* seconds of audio per recognition request
MIN_FILE_BYTES == 1000  \* transcribe_meeting returns at once below this size
SUMMARY_WORD_LIMIT == 3000  \* most words summarized in one request
BLOCK_SIZE == 2500      \* block_size of _incremental_summary
HEADER_READ_BYTES == 128    \* bytes _parse_header reads
MIN_HEADER_BYTES == 44  \* shortest header _parse_header accepts
CHUNK_BYTES == 8192     \* WavTailMonitor.CHUNK_BYTES
DB_FLOOR == -45         \* WavTailMonitor._DB_FLOOR
DB_CEIL == -5           \* WavTailMonitor._DB_CEIL
RMS_EPSILON == 10       \* the 1e-7 of _to_perceptual, in units of 1e-8
SILENCE_THRESHOLD == 500000     \* WavTailMonitor.SILENCE_THRESHOLD, in units of 1e-8
SILENCE_TIMEOUT_S == 5          \* WavTailMonitor.SILENCE_TIMEOUT_S

Modes == {"dictate", "screenshot", "meeting"}

-----------------------------------------------------------------------------
(* AudioRecorder (src/visionflow/recorder.py) *)

NewAudioRecorder == [recording |-> FALSE, frames |-> 0, stream |-> "none"]

\* AudioRecorder.start; out = "ok", or the point where sounddevice raises
AudioRecorder_start(r, out) ==
    IF r.recording THEN r
    ELSE [recording |-> TRUE,
          frames |-> 0,
          stream |-> CASE out = "ok" -> "active"
                       [] out = "raise_start" -> "created"
                       [] OTHER -> r.stream]

AudioRecorder_start_raises(r, out) == ~r.recording /\ out # "ok"

\* AudioRecorder._build_wav: the length of the WAV it returns
build_wav_len(frames) ==
    IF frames = 0 THEN 0
    ELSE WAV_HEADER_BYTES + frames * BLOCKSIZE * SAMPLE_WIDTH * CHANNELS

\* AudioRecorder.stop: the recorder afterwards, and the bytes it returns
AudioRecorder_stop(r) == [r EXCEPT !.recording = FALSE, !.stream = "none"]
AudioRecorder_stop_len(r) == build_wav_len(r.frames)

\* AudioRecorder._audio_callback
audio_callback(r) ==
    IF r.recording THEN [r EXCEPT !.frames = @ + 1] ELSE r

StartOutcomes == {"ok", "raise_open", "raise_start"}

-----------------------------------------------------------------------------
(* DualRecorder (src/visionflow/recorder.py) *)

NoDual == [present |-> FALSE, recording |-> FALSE, mic |-> NewAudioRecorder,
           monitor_proc |-> FALSE, tmpfile |-> FALSE]

NewDualRecorder == [NoDual EXCEPT !.present = TRUE]

\* what the environment gives the monitor capture at start()
MonitorStart == {"no_source", "spawn_fail", "spawned"}

\* DualRecorder.start(); micOut as for AudioRecorder.start
DualRecorder_start(d, micOut, mon) ==
    IF d.recording THEN d
    ELSE IF AudioRecorder_start_raises(d.mic, micOut)
         THEN [d EXCEPT !.mic = AudioRecorder_start(d.mic, micOut)]
         ELSE [d EXCEPT !.mic = AudioRecorder_start(d.mic, micOut),
                        !.tmpfile = (mon # "no_source"),
                        !.monitor_proc = (mon = "spawned"),
                        !.recording = TRUE]

DualRecorder_start_raises(d, micOut) ==
    ~d.recording /\ AudioRecorder_start_raises(d.mic, micOut)

\* lengths _read_and_normalize can return (0: unreadable or unsupported)
MonitorLens == {0, 998, 1000, 1002}

\* DualRecorder.stop: the lengths it can return for the monitor. The name
\* from tempfile.mktemp is a file only once parecord has written it, so
\* without a spawned capture "monitor_path.exists()" is false.
DualRecorder_stop_monitor_lens(d) ==
    IF d.recording /\ d.tmpfile /\ d.monitor_proc THEN MonitorLens ELSE {0}

DualRecorder_stop_mic_len(d) ==
    IF d.recording THEN AudioRecorder_stop_len(d.mic) ELSE 0

DualRecorder_stop(d) ==
    IF ~d.recording THEN d
    ELSE [d EXCEPT !.recording = FALSE,
                   !.mic = AudioRecorder_stop(d.mic),
                   !.monitor_proc = FALSE,
                   !.tmpfile = FALSE]

-----------------------------------------------------------------------------
(* MeetingRecorder (src/visionflow/meeting.py) *)

NoMeeting == [present |-> FALSE, recording |-> FALSE, mic_proc |-> FALSE,
              monitor_proc |-> FALSE, paths |-> FALSE]

NewMeetingRecorder == [NoMeeting EXCEPT !.present = TRUE]

\* what the environment gives MeetingRecorder.start
MeetingStart == {"no_mic", "no_monitor", "mic_spawn_fail", "monitor_spawn_fail", "ok"}

\* start() without the check of the monitor source
MeetingRecorder_start_runtime_error_mic_only(m, env) ==
    m.recording \/ env \in {"no_mic"}

\* the RuntimeError cases of start(): caught by _start_meeting
MeetingRecorder_start_runtime_error(m, env) ==
    m.recording \/ env \in {"no_mic", "no_monitor"}

\* the other exceptions of start(): subprocess.Popen failing
MeetingRecorder_start_os_error(m, env) ==
    ~m.recording /\ env \in {"mic_spawn_fail", "monitor_spawn_fail"}

MeetingRecorder_start(m, env) ==
    IF MeetingRecorder_start_runtime_error(m, env) THEN m
    ELSE CASE env = "mic_spawn_fail" -> [m EXCEPT !.paths = TRUE]
           [] env = "monitor_spawn_fail" ->
                [m EXCEPT !.paths = TRUE, !.mic_proc = TRUE]
           [] OTHER ->
                [m EXCEPT !.paths = TRUE, !.mic_proc = TRUE,
                          !.monitor_proc = TRUE, !.recording = TRUE]

\* MeetingRecorder.stop: TRUE when it returns MeetingFiles, FALSE when None
MeetingRecorder_stop_files(m) == m.recording /\ m.paths

MeetingRecorder_stop(m) ==
    IF ~m.recording THEN m
    ELSE [m EXCEPT !.recording = FALSE, !.mic_proc = FALSE, !.monitor_proc = FALSE]

\* capture processes of a recorder object still running
MeetingProcs(m) == (IF m.mic_proc THEN 1 ELSE 0) + (IF m.monitor_proc THEN 1 ELSE 0)
DualProcs(d) == IF d.monitor_proc THEN 1 ELSE 0

\* Recorder objects that the app overwrote or cleared: nothing can stop them
\* any more. recording: one of them is still recording; procs: one of them
\* still has a capture process running.
NoneUnreferenced == [recording |-> FALSE, procs |-> FALSE]

DropMeeting(u, m) ==
    [recording |-> u.recording \/ m.recording,
     procs |-> u.procs \/ MeetingProcs(m) > 0]

DropDual(u, d) ==
    [recording |-> u.recording \/ d.recording,
     procs |-> u.procs \/ DualProcs(d) > 0]

-----------------------------------------------------------------------------
(* LocalWhisprApp (src/localwhispr/server.py): the command handlers *)

\* the record of a step: the operation, what the environment gave it (in: a
\* tag, lens: the buffer lengths its capture returned), the response written
\* to the client and the side effects of the step
Op(op, in, resp, eff) ==
    [op |-> op, in |-> in, lens |-> <<>>, resp |-> resp, eff |-> eff]
OpL(op, lens, resp, eff) ==
    [op |-> op, in |-> "", lens |-> lens, resp |-> resp, eff |-> eff]

\* the test without its length part: "not b"
TooShort_empty_only(len) == len = 0

\* the stop handlers' test "not b or len(b) < 1000"
TooShort(len) == len = 0 \/ len < MIN_WAV_BYTES

Worker(kind, mic, mon) == [kind |-> kind, pc |-> "run", mic |-> mic, mon |-> mon]

\* threading.Thread(target=..., daemon=True).start()
Dispatch(kind, mic, mon) ==
    /\ Len(workers) < MaxWorkers
    /\ workers' = Append(workers, Worker(kind, mic, mon))

\* the early return of the three toggles while a pipeline runs
BusyProcessing(cmd) ==
    /\ _processing
    /\ lastOp' = Op(cmd, "", "BUSY processando", {})
    /\ UNCHANGED <<sessionFields, recorderFields, workers>>

\* a toggle that takes over a recording made in another mode
BusyMode_takes_over(cmd, m) ==
    /\ ~_processing
    /\ _recording
    /\ _mode # m
    /\ _mode' = m
    /\ lastOp' = Op(cmd, "", "BUSY modo=" \o _mode, {})
    /\ UNCHANGED <<_recording, _processing, _capture_monitor, _meeting_config,
                   recorderFields, workers>>

\* the last branch of the three toggles: recording in another mode
BusyMode(cmd, m) ==
    /\ ~_processing
    /\ _recording
    /\ _mode # m
    /\ lastOp' = Op(cmd, "", "BUSY modo=" \o _mode, {})
    /\ UNCHANGED <<sessionFields, recorderFields, workers>>

\* toggle_dictation, branch "not self._recording", without the monitor
StartDictationMic ==
    /\ ~_capture_monitor
    /\ \E out \in StartOutcomes :
        /\ _recorder' = AudioRecorder_start(_recorder, out)
        /\ lastOp' = IF AudioRecorder_start_raises(_recorder, out)
                     THEN Op("dictate", out, "ERR", {})
                     ELSE Op("dictate", out, "OK recording", {"capture"})
    /\ UNCHANGED <<_dual_recorder, _meeting_recorder, unreferenced>>

\* toggle_dictation, branch "not self._recording", with capture_monitor
StartDictationDual ==
    /\ _capture_monitor
    /\ unreferenced' = DropDual(unreferenced, _dual_recorder)
    /\ \E out \in StartOutcomes, mon \in MonitorStart :
        /\ _dual_recorder' = DualRecorder_start(NewDualRecorder, out, mon)
        /\ lastOp' = IF DualRecorder_start_raises(NewDualRecorder, out)
                     THEN Op("dictate", out, "ERR", {})
                     ELSE Op("dictate", mon, "OK recording", {"capture"})
    /\ UNCHANGED <<_recorder, _meeting_recorder>>

StartDictation ==
    /\ ~_processing
    /\ ~_recording
    /\ _mode' = "dictate"
    /\ _recording' = TRUE
    /\ StartDictationMic \/ StartDictationDual
    /\ UNCHANGED <<_processing, _capture_monitor, _meeting_config, workers>>

\* _stop_and_process_dictation, branch "if self._dual_recorder"
StopDictationDual ==
    /\ _dual_recorder.present
    /\ _dual_recorder' = NoDual
    /\ unreferenced' = DropDual(unreferenced, DualRecorder_stop(_dual_recorder))
    /\ _recording' = FALSE
    /\ LET mic == DualRecorder_stop_mic_len(_dual_recorder) IN
       \E mon \in DualRecorder_stop_monitor_lens(_dual_recorder) :
          IF TooShort(mic) /\ TooShort(mon)
          THEN /\ _mode' = ""
               /\ lastOp' = OpL("dictate", <<mic, mon>>, "OK too_short", {})
               /\ UNCHANGED <<_processing, workers>>
          ELSE /\ _processing' = TRUE
               /\ Dispatch("dual", mic, mon)
               /\ lastOp' = OpL("dictate", <<mic, mon>>, "OK processing", {"spawn"})
               /\ UNCHANGED _mode
    /\ UNCHANGED <<_recorder, _meeting_recorder>>

\* _stop_and_process_dictation, branch "else"
StopDictationMic ==
    /\ ~_dual_recorder.present
    /\ _recorder' = AudioRecorder_stop(_recorder)
    /\ _recording' = FALSE
    /\ LET wav == AudioRecorder_stop_len(_recorder) IN
          IF TooShort(wav)
          THEN /\ _mode' = ""
               /\ lastOp' = OpL("dictate", <<wav>>, "OK too_short", {})
               /\ UNCHANGED <<_processing, workers>>
          ELSE /\ _processing' = TRUE
               /\ Dispatch("dictation", wav, 0)
               /\ lastOp' = OpL("dictate", <<wav>>, "OK processing", {"spawn"})
               /\ UNCHANGED _mode
    /\ UNCHANGED <<_dual_recorder, _meeting_recorder, unreferenced>>

StopAndProcessDictation ==
    /\ ~_processing
    /\ _recording
    /\ _mode = "dictate"
    /\ StopDictationDual \/ StopDictationMic
    /\ UNCHANGED <<_capture_monitor, _meeting_config>>

toggle_dictation ==
    \/ BusyProcessing("dictate")
    \/ StopAndProcessDictation
    \/ StartDictation
    \/ BusyMode("dictate", "dictate")

\* toggle_screenshot, branch "not self._recording"
StartScreenshot ==
    /\ ~_processing
    /\ ~_recording
    /\ _mode' = "screenshot"
    /\ _recording' = TRUE
    /\ \E out \in StartOutcomes :
        /\ _recorder' = AudioRecorder_start(_recorder, out)
        /\ lastOp' = IF AudioRecorder_start_raises(_recorder, out)
                     THEN Op("screenshot", out, "ERR", {})
                     ELSE Op("screenshot", out, "OK recording", {"capture"})
    /\ UNCHANGED <<_processing, _capture_monitor, _meeting_config, workers,
                   _dual_recorder, _meeting_recorder, unreferenced>>

\* _stop_and_process_screenshot
StopAndProcessScreenshot ==
    /\ ~_processing
    /\ _recording
    /\ _mode = "screenshot"
    /\ _recorder' = AudioRecorder_stop(_recorder)
    /\ _recording' = FALSE
    /\ LET wav == AudioRecorder_stop_len(_recorder) IN
          IF TooShort(wav)
          THEN /\ _mode' = ""
               /\ lastOp' = OpL("screenshot", <<wav>>, "OK too_short", {})
               /\ UNCHANGED <<_processing, workers>>
          ELSE /\ _processing' = TRUE
               /\ Dispatch("screenshot", wav, 0)
               /\ lastOp' = OpL("screenshot", <<wav>>, "OK processing", {"spawn"})
               /\ UNCHANGED _mode
    /\ UNCHANGED <<_capture_monitor, _meeting_config,
                   _dual_recorder, _meeting_recorder, unreferenced>>

toggle_screenshot ==
    \/ BusyProcessing("screenshot")
    \/ StopAndProcessScreenshot
    \/ StartScreenshot
    \/ BusyMode("screenshot", "screenshot")

\* _start_meeting
StartMeeting ==
    /\ ~_processing
    /\ ~_recording
    /\ IF ~_meeting_config
       THEN /\ lastOp' = Op("meeting", "no_config", "ERR meeting_config ausente", {})
            /\ UNCHANGED <<_mode, _recording, _meeting_recorder, unreferenced>>
       ELSE /\ unreferenced' = DropMeeting(unreferenced, _meeting_recorder)
            /\ \E env \in MeetingStart :
                /\ _meeting_recorder' = MeetingRecorder_start(NewMeetingRecorder, env)
                /\ IF MeetingRecorder_start_runtime_error(NewMeetingRecorder, env)
                      \/ MeetingRecorder_start_os_error(NewMeetingRecorder, env)
                   THEN /\ lastOp' = Op("meeting", env, "ERR", {})
                        /\ UNCHANGED <<_mode, _recording>>
                   ELSE /\ _mode' = "meeting"
                        /\ _recording' = TRUE
                        /\ lastOp' = Op("meeting", env, "OK meeting_recording", {"capture"})
    /\ UNCHANGED <<_processing, _capture_monitor, _meeting_config, workers,
                   _recorder, _dual_recorder>>

\* _stop_and_process_meeting
StopAndProcessMeeting ==
    /\ ~_processing
    /\ _recording
    /\ _mode = "meeting"
    /\ _recording' = FALSE
    /\ IF ~_meeting_recorder.present
       THEN /\ _mode' = ""
            /\ lastOp' = Op("meeting", "", "ERR no_meeting_recorder", {})
            /\ UNCHANGED <<_processing, workers, _meeting_recorder>>
            /\ UNCHANGED unreferenced
       ELSE IF ~MeetingRecorder_stop_files(_meeting_recorder)
       THEN /\ _mode' = ""
            /\ _meeting_recorder' = NoMeeting
            /\ unreferenced' = DropMeeting(unreferenced, MeetingRecorder_stop(_meeting_recorder))
            /\ lastOp' = Op("meeting", "", "ERR meeting_no_files", {})
            /\ UNCHANGED <<_processing, workers>>
       ELSE /\ _meeting_recorder' = MeetingRecorder_stop(_meeting_recorder)
            /\ _processing' = TRUE
            /\ Dispatch("meeting", 0, 0)
            /\ lastOp' = Op("meeting", "", "OK meeting_processing", {"spawn", "capture_stopped"})
            /\ UNCHANGED <<_mode, unreferenced>>
    /\ UNCHANGED <<_capture_monitor, _meeting_config, _recorder, _dual_recorder>>

toggle_meeting ==
    \/ BusyProcessing("meeting")
    \/ StopAndProcessMeeting
    \/ StartMeeting
    \/ BusyMode("meeting", "meeting")

\* a status request that resets a session it finds neither recording nor
\* processing
get_status_resets ==
    /\ lastOp' = Op("status", "", "STATUS idle", {})
    /\ _mode' = IF _processing \/ _recording THEN _mode ELSE ""
    /\ UNCHANGED <<_recording, _processing, _capture_monitor, _meeting_config,
                   recorderFields, workers>>

\* get_status: the response
StatusResponse ==
    IF _processing THEN "STATUS processing mode=" \o _mode
    ELSE IF _recording THEN "STATUS recording mode=" \o _mode
    ELSE "STATUS idle"

get_status ==
    /\ lastOp' = Op("status", "", StatusResponse, {})
    /\ UNCHANGED <<sessionFields, recorderFields, workers>>

\* force_stop, first branch: a meeting with its recorder
ForceStopMeeting ==
    /\ _recording /\ _mode = "meeting" /\ _meeting_recorder.present
    /\ _meeting_recorder' = NoMeeting
    /\ unreferenced' = DropMeeting(unreferenced, MeetingRecorder_stop(_meeting_recorder))
    /\ _recording' = FALSE
    /\ _mode' = ""
    /\ lastOp' = Op("stop", "meeting", "OK stopped",
                    IF _meeting_recorder.recording THEN {"capture_stopped"} ELSE {})
    /\ UNCHANGED <<_processing, _capture_monitor, _meeting_config, workers,
                   _recorder, _dual_recorder>>

\* force_stop, second branch: any other recording
ForceStopRecorder ==
    /\ _recording /\ ~(_mode = "meeting" /\ _meeting_recorder.present)
    /\ IF _dual_recorder.present
       THEN /\ _dual_recorder' = NoDual
            /\ unreferenced' = DropDual(unreferenced, DualRecorder_stop(_dual_recorder))
            /\ lastOp' = Op("stop", "dual", "OK stopped",
                            IF _dual_recorder.recording THEN {"capture_stopped"} ELSE {})
            /\ UNCHANGED _recorder
       ELSE /\ _recorder' = AudioRecorder_stop(_recorder)
            /\ lastOp' = Op("stop", "mic", "OK stopped",
                            IF _recorder.recording THEN {"capture_stopped"} ELSE {})
            /\ UNCHANGED <<_dual_recorder, unreferenced>>
    /\ _recording' = FALSE
    /\ _mode' = ""
    /\ UNCHANGED <<_processing, _capture_monitor, _meeting_config, workers,
                   _meeting_recorder>>

\* force_stop, last line
ForceStopIdle ==
    /\ ~_recording
    /\ lastOp' = Op("stop", "", "OK already_idle", {})
    /\ UNCHANGED <<sessionFields, recorderFields, workers>>

\* a force_stop whose last line also clears the mode
force_stop_clears_mode ==
    \/ ForceStopMeeting
    \/ ForceStopRecorder
    \/ /\ ~_recording
       /\ _mode' = ""
       /\ lastOp' = Op("stop", "", "OK already_idle", {})
       /\ UNCHANGED <<_recording, _processing, _capture_monitor, _meeting_config,
                      recorderFields, workers>>

force_stop == ForceStopMeeting \/ ForceStopRecorder \/ ForceStopIdle

-----------------------------------------------------------------------------
(* LocalWhisprApp: the pipeline threads *)

\* what a call of a collaborator can do inside a pipeline
AsrResults == {"raise", "empty", "text"}
TailResults == {"cleanup_raise", "type_raise", "ok"}

\* the dual pipeline's test "b and len(b) > 1000" before each recognition
Transcribed(len) == len # 0 /\ len > MIN_WAV_BYTES

\* the tail common to the dictation pipelines: cleanup, type_text, notify_done
TailEffects(t) ==
    CASE t = "cleanup_raise" -> {"cleanup", "notify_error"}
      [] t = "type_raise" -> {"cleanup", "notify_error"}
      [] OTHER -> {"cleanup", "type", "notify_done"}

\* _process_dictation, the try block: the outcomes <<tag, effects>>
process_dictation_outcomes(w) ==
    {<<"asr_raise", {"asr", "notify_error"}>>,
     <<"asr_empty", {"asr", "notify_error"}>>}
    \cup {<<t, {"asr"} \cup TailEffects(t)>> : t \in TailResults}

\* _process_dictation_dual, the try block
process_dictation_dual_outcomes(w) ==
    LET micRes == IF Transcribed(w.mic) THEN AsrResults ELSE {"skipped"}
        monRes == IF Transcribed(w.mon) THEN AsrResults ELSE {"skipped"}
        micEff(r) == IF r = "skipped" THEN {} ELSE {"asr_mic"}
        monEff(r) == IF r = "skipped" THEN {} ELSE {"asr_mon"}
    IN  {<<"asr_raise", {"asr_mic", "notify_error"}>> : r \in micRes \cap {"raise"}}
        \cup {<<"asr_raise", micEff(r) \cup {"asr_mon", "notify_error"}>> :
                r \in micRes \ {"raise"}, q \in monRes \cap {"raise"}}
        \cup {<<"asr_empty", micEff(r) \cup monEff(q) \cup {"notify_error"}>> :
                r \in micRes \cap {"skipped", "empty"},
                q \in monRes \cap {"skipped", "empty"}}
        \cup UNION {{<<t, micEff(r) \cup monEff(q) \cup {"merge"} \cup TailEffects(t)>> :
                        t \in TailResults} :
                     <<r, q>> \in {x \in (micRes \ {"raise"}) \X (monRes \ {"raise"}) :
                                     "text" \in {x[1], x[2]}}}

\* _process_screenshot, the try block
process_screenshot_outcomes(w) ==
    {<<"asr_raise", {"asr", "notify_error"}>>,
     <<"asr_empty", {"asr", "notify_error"}>>,
     <<"execute_raise", {"asr", "execute", "notify_error"}>>,
     <<"execute_empty", {"asr", "execute", "notify_error"}>>,
     <<"type_raise", {"asr", "execute", "notify_error"}>>,
     <<"ok", {"asr", "execute", "type", "notify_done"}>>}

\* _process_meeting, the try block
process_meeting_outcomes(w) ==
    {<<"raise", {"process_meeting", "notify_error"}>>,
     <<"empty", {"process_meeting", "notify_error"}>>,
     <<"ok", {"process_meeting", "notify"}>>}

PipelineOutcomes(w) ==
    CASE w.kind = "dictation" -> process_dictation_outcomes(w)
      [] w.kind = "dual" -> process_dictation_dual_outcomes(w)
      [] w.kind = "screenshot" -> process_screenshot_outcomes(w)
      [] OTHER -> process_meeting_outcomes(w)

Remove(seq, i) == [j \in 1..(Len(seq) - 1) |-> IF j < i THEN seq[j] ELSE seq[j + 1]]

\* where a pipeline thread goes after the step at pc ("exit": it is over);
\* the buffers are arguments of the try block and dead after it
FinallyNext(w) ==
    CASE w.pc = "run" -> "fin1"
      [] w.pc = "fin1" -> "fin2"
      [] w.pc = "fin2" -> IF w.kind = "meeting" THEN "fin3" ELSE "exit"
      [] OTHER -> "exit"

Advance(i) ==
    LET nxt == FinallyNext(workers[i]) IN
    IF nxt = "exit" THEN Remove(workers, i)
    ELSE [workers EXCEPT ![i] = [kind |-> @.kind, pc |-> nxt, mic |-> 0, mon |-> 0]]

\* the try block (and its except clause) of a pipeline
WorkerRun(i) ==
    /\ workers[i].pc = "run"
    /\ \E o \in PipelineOutcomes(workers[i]) :
          lastOp' = Op("run", o[1], workers[i].kind, o[2])
    /\ workers' = Advance(i)
    /\ UNCHANGED <<sessionFields, recorderFields>>

\* a finally block that leaves _processing set
WorkerFin1_keeps_processing(i) ==
    /\ workers[i].pc = "fin1"
    /\ workers' = Advance(i)
    /\ lastOp' = Op("fin1", "", workers[i].kind, {})
    /\ UNCHANGED <<sessionFields, recorderFields>>

\* finally: self._processing = False
WorkerFin1(i) ==
    /\ workers[i].pc = "fin1"
    /\ _processing' = FALSE
    /\ workers' = Advance(i)
    /\ lastOp' = Op("fin1", "", workers[i].kind, {})
    /\ UNCHANGED <<_recording, _mode, _capture_monitor, _meeting_config, recorderFields>>

\* finally: self._mode = ""
WorkerFin2(i) ==
    /\ workers[i].pc = "fin2"
    /\ _mode' = ""
    /\ workers' = Advance(i)
    /\ lastOp' = Op("fin2", "", workers[i].kind,
                    IF FinallyNext(workers[i]) = "exit" THEN {"exit"} ELSE {})
    /\ UNCHANGED <<_recording, _processing, _capture_monitor, _meeting_config,
                   recorderFields>>

\* finally of _process_meeting: self._meeting_recorder = None
WorkerFin3(i) ==
    /\ workers[i].pc = "fin3"
    /\ _meeting_recorder' = NoMeeting
    /\ unreferenced' = DropMeeting(unreferenced, _meeting_recorder)
    /\ workers' = Advance(i)
    /\ lastOp' = Op("fin3", "", workers[i].kind, {"exit"})
    /\ UNCHANGED <<sessionFields, _recorder, _dual_recorder>>

WorkerStep(i) == WorkerRun(i) \/ WorkerFin1(i) \/ WorkerFin2(i) \/ WorkerFin3(i)

WorkerNext == \E i \in DOMAIN workers : WorkerStep(i)

-----------------------------------------------------------------------------
(* The capture callbacks (sounddevice's thread) *)

\* _audio_callback of the shared recorder
AudioCallback ==
    /\ _recorder.stream = "active"
    /\ _recorder.frames < MaxBlocks
    /\ _recorder' = audio_callback(_recorder)
    /\ lastOp' = Op("callback", "mic", "", {})
    /\ UNCHANGED <<sessionFields, _dual_recorder, _meeting_recorder, unreferenced, workers>>

\* _audio_callback of the DualRecorder's microphone recorder
DualAudioCallback ==
    /\ _dual_recorder.present
    /\ _dual_recorder.mic.stream = "active"
    /\ _dual_recorder.mic.frames < MaxBlocks
    /\ _dual_recorder' = [_dual_recorder EXCEPT !.mic = audio_callback(@)]
    /\ lastOp' = Op("callback", "dual", "", {})
    /\ UNCHANGED <<sessionFields, _recorder, _meeting_recorder, unreferenced, workers>>

-----------------------------------------------------------------------------
(* _merge_speaker_segments (src/localwhispr/server.py) *)

\* A segment is <<start, end, text>>. The returned string is modelled as its
\* sequence of tokens: a label or a text per token, the tokens of a paragraph
\* separated by " ", the paragraphs by the token "\n".

\* the two loops that fill tagged: (start, label, text)
Tag(segs, label) == [i \in DOMAIN segs |-> <<segs[i][1], label, segs[i][3]>>]

RECURSIVE InsertByStart_unstable(_, _)
\* a sort that puts x in front of the elements with an equal key
InsertByStart_unstable(sorted, x) ==
    IF sorted = <<>> THEN <<x>>
    ELSE LET last == sorted[Len(sorted)] IN
         IF last[1] < x[1] THEN Append(sorted, x)
         ELSE Append(InsertByStart_unstable(SubSeq(sorted, 1, Len(sorted) - 1), x), last)

RECURSIVE InsertByStart(_, _)
\* x goes behind every element whose key is not greater: the sort is stable
InsertByStart(sorted, x) ==
    IF sorted = <<>> THEN <<x>>
    ELSE LET last == sorted[Len(sorted)] IN
         IF last[1] <= x[1] THEN Append(sorted, x)
         ELSE Append(InsertByStart(SubSeq(sorted, 1, Len(sorted) - 1), x), last)

RECURSIVE SortPrefix(_, _)
SortPrefix(seq, n) ==
    IF n = 0 THEN <<>> ELSE InsertByStart(SortPrefix(seq, n - 1), seq[n])

\* tagged.sort(key=lambda x: x[0])
SortByStart(seq) == SortPrefix(seq, Len(seq))

\* f"{current_speaker} {' '.join(current_texts)}"
Paragraph(speaker, texts) == <<speaker>> \o texts

\* a grouping that never joins two segments
GroupStep_never_joins(st, seg) ==
    [parts |-> IF st.texts # <<>>
               THEN Append(st.parts, Paragraph(st.speaker, st.texts))
               ELSE st.parts,
     speaker |-> seg[2],
     texts |-> <<seg[3]>>]

\* one iteration of the grouping loop
GroupStep(st, seg) ==
    IF seg[2] # st.speaker
    THEN [parts |-> IF st.texts # <<>>
                    THEN Append(st.parts, Paragraph(st.speaker, st.texts))
                    ELSE st.parts,
          speaker |-> seg[2],
          texts |-> <<seg[3]>>]
    ELSE [st EXCEPT !.texts = Append(@, seg[3])]

RECURSIVE GroupPrefix(_, _)
GroupPrefix(tagged, n) ==
    IF n = 0 THEN [parts |-> <<>>, speaker |-> "", texts |-> <<>>]
    ELSE GroupStep(GroupPrefix(tagged, n - 1), tagged[n])

\* the loop, and the flush of the last paragraph after it
Group(tagged) ==
    LET st == GroupPrefix(tagged, Len(tagged)) IN
    IF st.texts # <<>> THEN Append(st.parts, Paragraph(st.speaker, st.texts))
    ELSE st.parts

RECURSIVE JoinLines(_)
\* "\n".join(parts)
JoinLines(parts) ==
    IF parts = <<>> THEN <<>>
    ELSE IF Len(parts) = 1 THEN parts[1]
    ELSE parts[1] \o <<"\n">> \o JoinLines(Tail(parts))

merge_speaker_segments(mic, mon) ==
    JoinLines(Group(SortByStart(Tag(mic, "[Eu]") \o Tag(mon, "[Outro]"))))

\* the texts the recognizer returns: one per position of each source
MicTexts == <<"m1", "m2", "m3", "m4">>
MonitorTexts == <<"o1", "o2", "o3", "o4">>

Segments(texts) ==
    UNION {{[i \in 1..n |-> <<starts[i], starts[i] + 1, texts[i]>>] :
              starts \in [1..n -> 0..MaxTime]} : n \in 0..MaxSegs}

MergeInit ==
    /\ mic_segments \in Segments(MicTexts)
    /\ monitor_segments \in Segments(MonitorTexts)
    /\ merged = <<>>
    /\ merge_pc = "ready"

MergeCall ==
    /\ merge_pc = "ready"
    /\ merged' = merge_speaker_segments(mic_segments, monitor_segments)
    /\ merge_pc' = "done"
    /\ UNCHANGED <<mic_segments, monitor_segments>>

-----------------------------------------------------------------------------
(* transcribe_meeting (src/visionflow/meeting_processor.py) *)

\* Times are counted in ticks of half a second, so that a file of an odd
\* number of samples at 2 samples per second has a whole duration.
TicksPerSecond == 2

SampleRates == {1, 2}

\* bytes of the file that are not audio: the header the wave module writes,
\* alone or with other chunks after it
FileOverheads == {WAV_HEADER_BYTES, WAV_HEADER_BYTES + MIN_FILE_BYTES}

Max(a, b) == IF a >= b THEN a ELSE b
Min(a, b) == IF a <= b THEN a ELSE b

\* int(np.ceil(a / b)) for a >= 0, b > 0
CeilDiv(a, b) == (a + b - 1) \div b

\* chunk_samples = CHUNK_DURATION_S * sample_rate
chunk_samples(rate) == CHUNK_DURATION_S * rate

\* n_chunks = max(1, int(np.ceil(len(audio) / chunk_samples)))
n_chunks(len, rate) == Max(1, CeilDiv(len, chunk_samples(rate)))

\* an end that is not cut at the end of the audio
end_sample_unclipped(i, len, rate) == i * chunk_samples(rate)

\* start_sample, end_sample of chunk i (the code's i + 1)
start_sample(i, rate) == (i - 1) * chunk_samples(rate)
end_sample(i, len, rate) == Min(i * chunk_samples(rate), len)

\* chunk_start_time = start_sample / sample_rate, in ticks
chunk_start_time(i, rate) == (start_sample(i, rate) * TicksPerSecond) \div rate

\* _format_duration: int(seconds), then HH:MM:SS, or MM:SS under one hour
format_duration(ticks) ==
    LET total_seconds == ticks \div TicksPerSecond
        hours == total_seconds \div 3600
        minutes == (total_seconds % 3600) \div 60
        secs == total_seconds % 60
    IN IF hours > 0 THEN <<hours, minutes, secs>> ELSE <<minutes, secs>>

\* what the recognizer can answer for one chunk
Answers == {"none", "ordered", "unordered", "outside"}

\* segment.start of each segment of an answer, in ticks from the start of a
\* chunk that lasts d ticks
SegmentStarts(answer, d) ==
    CASE answer = "none" -> <<>>
      [] answer = "ordered" -> <<0, Max(0, d - 1)>>
      [] answer = "unordered" -> <<Max(0, d - 1), 0>>
      [] OTHER -> <<d + 1>>

\* the duration of chunk i in ticks
ChunkTicks(i, len, rate) ==
    ((end_sample(i, len, rate) - start_sample(i, rate)) * TicksPerSecond) \div rate

\* a line that forgets the offset of its chunk
chunk_lines_no_offset(i, len, rate, answer) ==
    LET starts == SegmentStarts(answer, ChunkTicks(i, len, rate)) IN
    [k \in DOMAIN starts |->
        [ts |-> format_duration(starts[k]), chunk |-> i, k |-> k]]

\* chunk_text_parts of chunk i: "[ts] text" for each segment
chunk_lines(i, len, rate, answer) ==
    LET starts == SegmentStarts(answer, ChunkTicks(i, len, rate)) IN
    [k \in DOMAIN starts |->
        [ts |-> format_duration(chunk_start_time(i, rate) + starts[k]),
         chunk |-> i, k |-> k]]

RECURSIVE transcribe_chunks(_, _, _, _)
\* the loop over the chunks 1..n: the requests made and the lines collected
transcribe_chunks(n, len, rate, answers) ==
    IF n = 0 THEN [requests |-> <<>>, parts |-> <<>>]
    ELSE LET before == transcribe_chunks(n - 1, len, rate, answers) IN
         [requests |-> Append(before.requests,
                              <<start_sample(n, rate), end_sample(n, len, rate)>>),
          parts |-> before.parts \o chunk_lines(n, len, rate, answers[n])]

\* transcribe_meeting: nothing for a file under 1000 bytes, else the loop
transcribe_meeting(size, len, rate, answers) ==
    IF size < MIN_FILE_BYTES THEN [requests |-> <<>>, parts |-> <<>>]
    ELSE transcribe_chunks(n_chunks(len, rate), len, rate, answers)

\* the most chunks a file of the model has
MaxChunks == n_chunks(MaxSamples, 1)

ChunkIdle ==
    /\ audio = 0
    /\ sample_rate = 1
    /\ st_size = 0
    /\ segments = [i \in 1..MaxChunks |-> "none"]
    /\ requests = <<>>
    /\ tm_parts = <<>>
    /\ tm_pc = "idle"

\* a file of any length; the recognizer answers only the chunks it is given
ChunkInit ==
    /\ audio \in 0..MaxSamples
    /\ sample_rate \in SampleRates
    /\ st_size \in {o + SAMPLE_WIDTH * audio : o \in FileOverheads}
    /\ segments \in [1..MaxChunks -> Answers]
    /\ \A i \in 1..MaxChunks :
          (st_size < MIN_FILE_BYTES \/ i > n_chunks(audio, sample_rate))
             => segments[i] = "none"
    /\ requests = <<>>
    /\ tm_parts = <<>>
    /\ tm_pc = "ready"

TranscribeMeeting ==
    /\ tm_pc = "ready"
    /\ LET r == transcribe_meeting(st_size, audio, sample_rate, segments) IN
         /\ requests' = r.requests
         /\ tm_parts' = r.parts
    /\ tm_pc' = "done"
    /\ UNCHANGED <<audio, sample_rate, st_size, segments>>

-----------------------------------------------------------------------------
(* generate_summary (src/visionflow/meeting_processor.py) *)

\* A text is a sequence of tokens <<kind, block index>>; "" is <<>>.
\* A request is <<kind, first word, end word>>; the meta-summary request
\* carries the number of partial summaries it combines.

\* what a request to the model server can do
OllamaOutcomes == {"text", "empty", "fail"}

\* _ollama_summarize: the response stripped, "" when it is empty or the
\* request raised; idx names the block summarized (0: the whole transcription)
ollama_summarize(outcome, idx) ==
    IF outcome = "text" THEN <<(<<"summary", idx>>)>> ELSE <<>>

\* the number of blocks of "for i in range(0, len(words), block_size)"
n_blocks(n) == CeilDiv(n, BLOCK_SIZE)

RECURSIVE partial_summaries(_, _)
\* the loop over the blocks 1..b: f"## Parte {idx+1}\n\n{summary}" for each
\* block whose summary is not empty
partial_summaries(b, outcomes) ==
    IF b = 0 THEN <<>>
    ELSE LET summary == ollama_summarize(outcomes[b], b) IN
         IF summary # <<>>
         THEN Append(partial_summaries(b - 1, outcomes), <<(<<"## Parte", b>>)>> \o summary)
         ELSE partial_summaries(b - 1, outcomes)

RECURSIVE JoinParts(_)
\* "\n\n---\n\n".join(partial_summaries)
JoinParts(partials) ==
    IF partials = <<>> THEN <<>>
    ELSE IF Len(partials) = 1 THEN partials[1]
    ELSE partials[1] \o <<(<<"---", 0>>)>> \o JoinParts(Tail(partials))

\* a meta-summary that returns nothing when its request fails
meta_summary_no_fallback(outcome, combined) ==
    IF outcome = "text" THEN <<(<<"meta", 0>>)>> ELSE <<>>

\* the try block of the meta-summary and its except clause
meta_summary(outcome, combined) ==
    CASE outcome = "text" -> <<(<<"meta", 0>>)>>
      [] outcome = "empty" -> <<>>
      [] OTHER -> combined

\* the requests of the block loop, in order
BlockRequests(n) ==
    [i \in 1..n_blocks(n) |-> <<"block", (i - 1) * BLOCK_SIZE, Min(i * BLOCK_SIZE, n)>>]

\* a variant of _incremental_summary without the shortcut for one summary
incremental_summary_meta_for_one(n, outcomes) ==
    LET b == n_blocks(n)
        partials == partial_summaries(b, outcomes)
    IN IF partials = <<>> THEN [requests |-> BlockRequests(n), result |-> <<>>]
       ELSE [requests |-> Append(BlockRequests(n), <<"meta", Len(partials), 0>>),
             result |-> meta_summary(outcomes[b + 1], JoinParts(partials))]

\* _incremental_summary; outcomes[b + 1] is the outcome of the meta-summary
incremental_summary(n, outcomes) ==
    LET b == n_blocks(n)
        partials == partial_summaries(b, outcomes)
    IN IF partials = <<>> THEN [requests |-> BlockRequests(n), result |-> <<>>]
       ELSE IF Len(partials) = 1
       THEN [requests |-> BlockRequests(n), result |-> partials[1]]
       ELSE [requests |-> Append(BlockRequests(n), <<"meta", Len(partials), 0>>),
             result |-> meta_summary(outcomes[b + 1], JoinParts(partials))]

\* a limit that sends a transcription of exactly 3000 words to the blocks
generate_summary_strict_limit(n, outcomes) ==
    IF n < SUMMARY_WORD_LIMIT
    THEN [requests |-> <<(<<"summary", 0, n>>)>>, result |-> ollama_summarize(outcomes[1], 0)]
    ELSE incremental_summary(n, outcomes)

\* generate_summary for a transcription of n words
generate_summary(n, outcomes) ==
    IF n <= SUMMARY_WORD_LIMIT
    THEN [requests |-> <<(<<"summary", 0, n>>)>>, result |-> ollama_summarize(outcomes[1], 0)]
    ELSE incremental_summary(n, outcomes)

\* the requests generate_summary can make: the blocks and the meta-summary
MaxRequests == n_blocks(MaxWords) + 1

\* the requests a transcription of n words leads to, given the outcomes
RequestsMade(n, outcomes) == Len(generate_summary(n, outcomes).requests)

SummaryIdle ==
    /\ word_count = 0
    /\ ollama = [i \in 1..MaxRequests |-> "text"]
    /\ gs_requests = <<>>
    /\ gs_result = <<>>
    /\ gs_pc = "idle"

\* a transcription of any length; the server answers only the requests made
SummaryInit ==
    /\ word_count \in 0..MaxWords
    /\ ollama \in [1..MaxRequests -> OllamaOutcomes]
    /\ \A i \in 1..MaxRequests :
          i > RequestsMade(word_count, ollama) => ollama[i] = "text"
    /\ gs_requests = <<>>
    /\ gs_result = <<>>
    /\ gs_pc = "ready"

GenerateSummary ==
    /\ gs_pc = "ready"
    /\ LET r == generate_summary(word_count, ollama) IN
         /\ gs_requests' = r.requests
         /\ gs_result' = r.result
    /\ gs_pc' = "done"
    /\ UNCHANGED <<word_count, ollama>>

-----------------------------------------------------------------------------
(* WavTailMonitor (src/localwhispr/audio_monitor.py) *)

\* A file is described by its layout (wav_layout) and by how much of it is
\* on disk (file.size): the 12 bytes "RIFF", size, "WAVE", then the chunks,
\* each an 8-byte header and its payload, padded to an even length.
\* A raw RMS is counted in units of 1e-8 and a level in steps of
\* 1/(DB_CEIL - DB_FLOOR), the level of one decibel.

RmsOne == 10000 * 10000
LevelOne == DB_CEIL - DB_FLOOR

\* the raw RMS, in units of 1e-8, from which 20*log10 reaches -46, -45 .. -4
DbTable ==
    <<501188, 562342, 630958, 707946, 794329, 891251, 1000000, 1122019,
      1258926, 1412538, 1584894, 1778280, 1995263, 2238722, 2511887, 2818383,
      3162278, 3548134, 3981072, 4466836, 5011873, 5623414, 6309574, 7079458,
      7943283, 8912510, 10000000, 11220185, 12589255, 14125376, 15848932,
      17782795, 19952624, 22387212, 25118865, 28183830, 31622777, 35481339,
      39810718, 44668360, 50118724, 56234133, 63095735>>

\* 20.0 * math.log10(rms), rounded down to a whole decibel; outside the
\* table it is a value beyond the floor or the ceiling
Decibels(rms) ==
    LET reached == {d \in (-46)..(-4) : DbTable[d + 47] <= rms} IN
    IF reached = {} THEN -47
    ELSE CHOOSE d \in reached : \A e \in reached : e <= d

\* a mapping that does not clamp
to_perceptual_unclamped(rms) ==
    IF rms < RMS_EPSILON THEN 0 ELSE Decibels(rms) - DB_FLOOR

\* WavTailMonitor._to_perceptual
to_perceptual(rms) ==
    IF rms < RMS_EPSILON THEN 0
    ELSE Max(0, Min(LevelOne, Decibels(rms) - DB_FLOOR))

\* WavTailMonitor.__init__
NewWavTailMonitor ==
    [_n_channels |-> 0, _sample_width |-> 0, _sample_rate |-> 0,
     _data_offset |-> 0, _header_parsed |-> FALSE, _last_file_size |-> 0,
     _level |-> 0, _raw_rms |-> 0, _last_nonsilent |-> 0, _growing |-> FALSE]

\* the chunks of a file, in the order they are written
WavChunks(w) ==
    LET fmt == <<[id |-> "fmt ", size |-> w.fmt_size]>>
        data == <<[id |-> "data", size |-> 0]>>
        others == [i \in DOMAIN w.extras |-> [id |-> "LIST", size |-> w.extras[i]]]
    IN CASE w.kind = "data_first" -> data \o fmt
         [] w.kind = "no_fmt" -> others \o data
         [] w.kind = "late_fmt" -> others \o fmt \o data
         [] OTHER -> fmt \o others \o data

RECURSIVE ChunkStart(_, _)
\* where chunk k of a file begins
ChunkStart(w, k) ==
    IF k = 1 THEN 12
    ELSE LET size == WavChunks(w)[k - 1].size IN
         ChunkStart(w, k - 1) + 8 + size + (size % 2)

\* a file laid out: its fmt fields, and its chunks with where each begins
Layout(w) ==
    [kind |-> w.kind, channels |-> w.channels, rate |-> w.rate, bits |-> w.bits,
     chunks |-> [k \in DOMAIN WavChunks(w) |->
                   [id |-> WavChunks(w)[k].id, size |-> WavChunks(w)[k].size,
                    start |-> ChunkStart(w, k)]]]

\* the chunk of a laid out file that begins at pos (0: none does)
ChunkAt(w, pos) ==
    LET at == {k \in DOMAIN w.chunks : w.chunks[k].start = pos} IN
    IF at = {} THEN 0 ELSE CHOOSE k \in at : TRUE

\* a step to the next chunk that forgets the padding
next_pos_unaligned(pos, chunk_size) == pos + 8 + chunk_size

\* pos += 8 + chunk_size, and one more after an odd chunk
next_pos(pos, chunk_size) == pos + 8 + chunk_size + (chunk_size % 2)

\* a test that lets every fmt chunk through
fmt_in_header_unchecked(pos, hlen) == TRUE

\* the test before the fmt chunk is unpacked: its 16 bytes are in the header
fmt_in_header(pos, hlen) == pos + 8 + 16 <= hlen

RECURSIVE parse_chunks(_, _, _, _)
\* the while loop of _parse_header over the hlen bytes read, from pos on;
\* struct.unpack_from raises when the bytes it wants are not all there
parse_chunks(w, hlen, pos, m) ==
    IF pos + 8 > hlen \/ ChunkAt(w, pos) = 0
    THEN [ok |-> FALSE, raised |-> FALSE, m |-> m]
    ELSE LET c == w.chunks[ChunkAt(w, pos)] IN
         CASE c.id = "fmt " ->
                IF ~fmt_in_header(pos, hlen)
                THEN [ok |-> FALSE, raised |-> FALSE, m |-> m]
                ELSE IF pos + 8 + 16 > hlen
                THEN [ok |-> FALSE, raised |-> TRUE, m |-> m]
                ELSE parse_chunks(w, hlen, next_pos(pos, c.size),
                                  [m EXCEPT !._n_channels = w.channels,
                                            !._sample_rate = w.rate,
                                            !._sample_width = w.bits \div 8])
           [] c.id = "data" ->
                IF m._n_channels # 0 /\ m._sample_width # 0
                THEN [ok |-> TRUE, raised |-> FALSE,
                      m |-> [m EXCEPT !._data_offset = pos + 8,
                                      !._header_parsed = TRUE]]
                ELSE [ok |-> FALSE, raised |-> FALSE,
                      m |-> [m EXCEPT !._data_offset = pos + 8]]
           [] OTHER -> parse_chunks(w, hlen, next_pos(pos, c.size), m)

\* WavTailMonitor._parse_header; io = "open_fails": open() raises OSError
parse_header(m, w, size, io) ==
    LET hlen == Min(HEADER_READ_BYTES, size) IN
    IF io = "open_fails" \/ hlen < MIN_HEADER_BYTES \/ w.kind = "not_riff"
    THEN [ok |-> FALSE, raised |-> FALSE, m |-> m]
    ELSE parse_chunks(w, hlen, 12, m)

\* the raw RMS of the samples of a window (0: all samples are zero)
WindowRms == {0, 5, SILENCE_THRESHOLD, 562341, 562342, 5623414, 56234133, RmsOne}

\* WavTailMonitor._compute_rms: the bytes it reads and the RMS it returns;
\* rms is the RMS of the samples read
compute_rms(m, file_size, io, rms) ==
    LET frame_size == m._n_channels * m._sample_width
        available == Min(CHUNK_BYTES, file_size - m._data_offset)
        read_bytes == IF frame_size = 0 THEN 0 ELSE available - (available % frame_size)
        offset == Max(m._data_offset, file_size - read_bytes)
    IN IF frame_size = 0 \/ read_bytes <= 0
       THEN [rms |-> 0, offset |-> 0, length |-> 0]
       ELSE IF io = "open_fails" \/ m._sample_width \notin {2, 4}
       THEN [rms |-> 0, offset |-> offset, length |-> IF io = "open_fails" THEN 0 ELSE read_bytes]
       ELSE [rms |-> Min(rms, RmsOne), offset |-> offset, length |-> read_bytes]

\* what a poll leaves behind: the monitor, whether it raised, what it read
Polled(m, raised, offset, length) ==
    [m |-> m, raised |-> raised, offset |-> offset, length |-> length]

\* the two early returns of _refresh: no file, or stat() raises OSError
NoFile(m) == [m EXCEPT !._raw_rms = 0, !._level = 0, !._growing = FALSE]

\* WavTailMonitor._refresh up to the header: ok when a header is parsed
refresh_header(m, w, f, io) ==
    IF ~f.exists \/ io = "stat_fails"
    THEN [ok |-> FALSE, raised |-> FALSE, m |-> NoFile(m)]
    ELSE LET m1 == [m EXCEPT !._growing = f.size > m._last_file_size,
                             !._last_file_size = f.size]
         IN IF m1._header_parsed THEN [ok |-> TRUE, raised |-> FALSE, m |-> m1]
            ELSE parse_header(m1, w, f.size, io)

\* a variant of note_nonsilent that takes the time of every poll that read
note_nonsilent_any_poll(m, now) == [m EXCEPT !._last_nonsilent = now]

\* _refresh, after _compute_rms: the time of a poll above the threshold is kept
note_nonsilent(m, now) ==
    IF m._raw_rms > SILENCE_THRESHOLD THEN [m EXCEPT !._last_nonsilent = now] ELSE m

\* WavTailMonitor._refresh from the header on; p is what came before and now
\* is time.monotonic()
refresh_level(p, f, io, rms, now) ==
    IF ~p.ok THEN Polled(p.m, p.raised, 0, 0)
    ELSE IF f.size <= p.m._data_offset
    THEN Polled([p.m EXCEPT !._raw_rms = 0, !._level = 0], FALSE, 0, 0)
    ELSE LET r == compute_rms(p.m, f.size, io, rms)
             m1 == note_nonsilent([p.m EXCEPT !._raw_rms = r.rms], now)
         IN Polled([m1 EXCEPT !._level = to_perceptual(r.rms)],
                   FALSE, r.offset, r.length)

\* WavTailMonitor.is_silent, read at time now
is_silent(m, now) == (now - m._last_nonsilent) > SILENCE_TIMEOUT_S

\* the fmt chunks of the files of the model
FmtChoices ==
    {[channels |-> 1, rate |-> 16000, bits |-> 16],
     [channels |-> 2, rate |-> 48000, bits |-> 32],
     [channels |-> 2, rate |-> 44100, bits |-> 8],
     [channels |-> 0, rate |-> 16000, bits |-> 16]}

\* payload sizes of the chunks between fmt and data
ExtraSizes == {3, 80}

WavKinds == {"riff", "late_fmt", "not_riff", "data_first", "no_fmt"}

\* the files of the model: every fmt chunk and every run of other chunks for
\* a RIFF/WAVE file, every run of other chunks in front of the fmt chunk, and
\* one file of each other kind
WavFiles ==
    {[kind |-> "riff", fmt_size |-> fs, extras |-> ex,
      channels |-> c.channels, rate |-> c.rate, bits |-> c.bits] :
        fs \in {16, 18}, c \in FmtChoices,
        ex \in UNION {[1..n -> ExtraSizes] : n \in 0..MaxExtras}}
    \cup {[kind |-> "late_fmt", fmt_size |-> 16, extras |-> ex,
           channels |-> 1, rate |-> 16000, bits |-> 16] :
             ex \in UNION {[1..n -> ExtraSizes] : n \in 1..MaxExtras}}
    \cup {[kind |-> k, fmt_size |-> 16, extras |-> <<>>,
           channels |-> 1, rate |-> 16000, bits |-> 16] :
             k \in WavKinds \ {"riff", "late_fmt"}}

\* the byte just after the header of the data chunk, as the file is written
DataOffset(w) ==
    LET k == CHOOSE i \in DOMAIN w.chunks : w.chunks[i].id = "data" IN
    w.chunks[k].start + 8

\* the sizes at which a poll can find the file
FileSizes(w) ==
    {0, 20, DataOffset(w) - 1} \cup {DataOffset(w) + n : n \in {0, 3, 4, 8195}}

PollIo == {"ok", "stat_fails", "open_fails"}

NoPoll == [op |-> "none", io |-> "ok", raised |-> FALSE, offset |-> 0, length |-> 0]

MonitorIdle ==
    /\ wav_layout = Layout([kind |-> "riff", fmt_size |-> 16, extras |-> <<>>,
                             channels |-> 1, rate |-> 16000, bits |-> 16])
    /\ file = [exists |-> FALSE, size |-> 0]
    /\ monitor = NewWavTailMonitor
    /\ poll = NoPoll

MonitorInit ==
    /\ wav_layout \in {Layout(w) : w \in WavFiles}
    /\ file = [exists |-> FALSE, size |-> 0]
    /\ monitor = NewWavTailMonitor
    /\ poll = NoPoll

\* update() and update_raw(): _refresh, then the level or the raw RMS
Update(op) ==
    /\ \E io \in PollIo :
          LET h == refresh_header(monitor, wav_layout, file, io) IN
          \E rms \in IF h.ok THEN WindowRms ELSE {0} :
             LET p == refresh_level(h, file, io, rms, mono) IN
             /\ monitor' = p.m
             /\ poll' = [op |-> op, io |-> io, raised |-> p.raised,
                         offset |-> p.offset, length |-> p.length]
    /\ UNCHANGED <<wav_layout, file>>

update == Update("update")
update_raw == Update("update_raw")

\* the capture process creates the file or writes more of it
FileGrows ==
    /\ \E s \in FileSizes(wav_layout) :
          /\ ~file.exists \/ s > file.size
          /\ file' = [exists |-> TRUE, size |-> s]
    /\ poll' = [NoPoll EXCEPT !.op = "grow"]
    /\ UNCHANGED <<wav_layout, monitor>>

\* the file is deleted
FileDisappears ==
    /\ file.exists
    /\ file' = [exists |-> FALSE, size |-> 0]
    /\ poll' = [NoPoll EXCEPT !.op = "delete"]
    /\ UNCHANGED <<wav_layout, monitor>>

\* the monitor's clock, and the latest poll that came back above the threshold
SilenceIdle ==
    /\ mono = 0
    /\ heard = {}

\* the files a monitor is watched over while time passes: a fmt chunk of each
\* kind followed by the data chunk
SilenceInit ==
    /\ wav_layout \in {Layout(w) : w \in {f \in WavFiles : f.kind = "riff" /\ f.extras = <<>> /\ f.fmt_size = 16}}
    /\ file = [exists |-> FALSE, size |-> 0]
    /\ monitor = NewWavTailMonitor
    /\ poll = NoPoll
    /\ SilenceIdle

\* a second passes
MonoTick ==
    /\ mono < MaxMono
    /\ mono' = mono + 1
    /\ poll' = [NoPoll EXCEPT !.op = "tick"]
    /\ UNCHANGED <<wav_layout, file, monitor, heard>>

\* a poll at the time the clock shows; what it returned is noted
TimedUpdate(op) ==
    /\ Update(op)
    /\ heard' = IF monitor'._raw_rms > SILENCE_THRESHOLD THEN {mono} ELSE heard
    /\ UNCHANGED mono

timed_update == TimedUpdate("update")
timed_update_raw == TimedUpdate("update_raw")

-----------------------------------------------------------------------------
(* MeetingRecorder._mix_audio (src/visionflow/meeting.py): the mix of the
   two sources, sample by sample, with numpy's integer widths *)

Int16Min == -(2^15)
Int16Max == 2^15 - 1

\* ndarray.astype(np.int16): the low 16 bits, read as a signed number
astype_int16(x) == ((x - Int16Min) % 2^16) + Int16Min

\* the samples of the model: the ends of the 16-bit range and around zero
MixSamples == {Int16Min, -1, 0, 1, Int16Max}

\* what _read_wav_as_mono_16k returns: None, or int16 samples
NoData == [readable |-> FALSE, data |-> <<>>]

MixSources ==
    {NoData} \cup
    {[readable |-> TRUE, data |-> d] :
        d \in UNION {[1 .. n -> MixSamples] : n \in 0 .. MaxMixLen}}

\* np.pad(data, (0, max_len - len(data))): zeros after the data
pad(data, max_len) ==
    [i \in 1 .. max_len |-> IF i <= Len(data) THEN data[i] ELSE 0]

\* a variant of mix_sample that adds the samples in 16 bits
mix_sample_int16(a, b) == astype_int16(astype_int16(a + b) \div 2)

\* one sample of the mix: the sum in 32 bits (two 16-bit numbers add up to
\* 17 bits), halved with //, back to 16 bits
mix_sample(a, b) == astype_int16((a + b) \div 2)

\* _mix_audio: the samples written, or nothing written when both are None
mix_audio(mic_data, monitor_data) ==
    IF ~mic_data.readable /\ ~monitor_data.readable THEN NoData
    ELSE IF ~mic_data.readable THEN monitor_data
    ELSE IF ~monitor_data.readable THEN mic_data
    ELSE LET max_len == Max(Len(mic_data.data), Len(monitor_data.data))
             mic_padded == pad(mic_data.data, max_len)
             mon_padded == pad(monitor_data.data, max_len)
         IN [readable |-> TRUE,
             data |-> [i \in 1 .. max_len |-> mix_sample(mic_padded[i], mon_padded[i])]]

MixIdle ==
    /\ mix_in = [mic |-> NoData, monitor |-> NoData]
    /\ mix_out = NoData
    /\ mix_pc = "done"

MixInit ==
    /\ mix_in \in [mic : MixSources, monitor : MixSources]
    /\ mix_out = NoData
    /\ mix_pc = "ready"

MixAudio ==
    /\ mix_pc = "ready"
    /\ mix_out' = mix_audio(mix_in.mic, mix_in.monitor)
    /\ mix_pc' = "done"
    /\ UNCHANGED mix_in

-----------------------------------------------------------------------------
(* HotkeyListener (src/visionflow/hotkeys.py): key events of every keyboard,
   handled one at a time by the event loop *)

KeyCodes == {"KEY_LEFTCTRL", "KEY_D", "KEY_S"}

HotkeyModes == {"hold", "toggle", "both"}

\* the configurations: any two combinations of keys, in any mode
HotkeyConfigs ==
    [dictation : (SUBSET KeyCodes) \ {{}},
     screenshot_command : (SUBSET KeyCodes) \ {{}},
     mode : HotkeyModes]

NewHotkeyListener ==
    [_pressed_keys |-> {}, _dictation_active |-> FALSE, _screenshot_active |-> FALSE,
     _dictation_press_time |-> 0]

\* what handling an event leaves: the listener and the callbacks called
Handled(h, calls) == [h |-> h, calls |-> calls]

\* _handle_key_down, the dictation combination
key_down_dictation(h, cfg, now) ==
    IF cfg.dictation \subseteq h._pressed_keys
       /\ ~h._dictation_active /\ ~h._screenshot_active
    THEN IF cfg.mode \in {"hold", "both"}
         THEN Handled([h EXCEPT !._dictation_press_time = now, !._dictation_active = TRUE],
                      <<"on_dictation_start">>)
         ELSE Handled([h EXCEPT !._dictation_press_time = now], <<>>)
    ELSE Handled(h, <<>>)

\* _handle_key_down
handle_key_down(h, cfg, now) ==
    LET d == key_down_dictation(h, cfg, now) IN
    IF cfg.screenshot_command \subseteq d.h._pressed_keys
       /\ ~d.h._screenshot_active /\ ~d.h._dictation_active
    THEN Handled([d.h EXCEPT !._screenshot_active = TRUE],
                 Append(d.calls, "on_screenshot_start"))
    ELSE d

\* _handle_key_up
handle_key_up(h, cfg, released_code, now) ==
    IF h._screenshot_active /\ released_code \in cfg.screenshot_command
    THEN Handled([h EXCEPT !._screenshot_active = FALSE], <<"on_screenshot_stop">>)
    ELSE IF released_code \notin cfg.dictation THEN Handled(h, <<>>)
    ELSE CASE cfg.mode = "hold" /\ h._dictation_active ->
                Handled([h EXCEPT !._dictation_active = FALSE], <<"on_dictation_stop">>)
           [] cfg.mode = "toggle" ->
                IF ~h._dictation_active
                THEN Handled([h EXCEPT !._dictation_active = TRUE], <<"on_dictation_start">>)
                ELSE Handled([h EXCEPT !._dictation_active = FALSE], <<"on_dictation_stop">>)
           [] cfg.mode = "both" /\ h._dictation_active ->
                IF now - h._dictation_press_time < HoldTicks
                THEN Handled(h, <<>>)
                ELSE Handled([h EXCEPT !._dictation_active = FALSE], <<"on_dictation_stop">>)
           [] OTHER -> Handled(h, <<>>)

NoKeyEvent == [op |-> "none", code |-> "", calls |-> <<>>]

HotkeyIdle ==
    /\ hk_config = [dictation |-> {"KEY_D"}, screenshot_command |-> {"KEY_S"}, mode |-> "hold"]
    /\ hk = NewHotkeyListener
    /\ hk_now = 0
    /\ hk_last = NoKeyEvent

HotkeyInit ==
    /\ hk_config \in HotkeyConfigs
    /\ hk = NewHotkeyListener
    /\ hk_now = 0
    /\ hk_last = NoKeyEvent

\* _listen_device, a key_down event: the key is added, then handled
KeyDown ==
    \E code \in KeyCodes :
       LET r == handle_key_down([hk EXCEPT !._pressed_keys = @ \cup {code}], hk_config, hk_now) IN
       /\ hk' = r.h
       /\ hk_last' = [op |-> "key_down", code |-> code, calls |-> r.calls]
       /\ UNCHANGED <<hk_config, hk_now>>

\* _listen_device, a key_up event: handled, then the key is discarded
KeyUp ==
    \E code \in KeyCodes :
       LET r == handle_key_up(hk, hk_config, code, hk_now) IN
       /\ hk' = [r.h EXCEPT !._pressed_keys = @ \ {code}]
       /\ hk_last' = [op |-> "key_up", code |-> code, calls |-> r.calls]
       /\ UNCHANGED <<hk_config, hk_now>>

\* time passes between two events
HotkeyTick ==
    /\ hk_now < MaxHkTime
    /\ hk_now' = hk_now + 1
    /\ hk_last' = [NoKeyEvent EXCEPT !.op = "tick"]
    /\ UNCHANGED <<hk_config, hk>>

-----------------------------------------------------------------------------
(* DualRecorder.stop and MeetingRecorder.stop: stopping the capture
   processes (src/visionflow/recorder.py, src/visionflow/meeting.py).
   Time is counted in seconds from the call of stop(). *)

INT_WAIT_S == 5     \* wait(timeout=5) after SIGINT
TERM_WAIT_S == 3    \* wait(timeout=3) after terminate()

\* later than any stop() lasts: the process does not exit
Never == 2 * (INT_WAIT_S + TERM_WAIT_S) + 1

\* seconds a capture process takes to exit once it got a signal
Delays == (0 .. MaxDelay) \cup {Never}

\* a field holding None
NoProc == [spawned |-> FALSE, early |-> FALSE, exit_at |-> Never,
           on_int |-> Never, on_term |-> Never]

\* the processes subprocess.Popen can return: how long they take to exit on
\* SIGINT and on SIGTERM, and whether they have exited by themselves before
\* stop() is called (early)
ProcChoices ==
    [spawned : {TRUE}, early : {FALSE}, exit_at : {Never},
     on_int : Delays, on_term : Delays]
    \cup {[NoProc EXCEPT !.spawned = TRUE, !.early = TRUE]}

\* proc.poll() is None at time t
ProcRunning(p, t) == p.spawned /\ ~p.early /\ p.exit_at > t

\* the process after a signal sent at time t that makes it exit d seconds later
Signalled(p, t, d) ==
    IF ProcRunning(p, t) THEN [p EXCEPT !.exit_at = Min(@, Min(Never, t + d))] ELSE p

\* a ladder that goes from the interrupt straight to kill
escalate_no_terminate(sig) == "kill"

\* the signal the handlers of TimeoutExpired send after the wait for sig
escalate(sig) == IF sig = "int" THEN "term" ELSE "kill"

\* the timeout of the wait that follows sig
wait_timeout(sig) == IF sig = "int" THEN INT_WAIT_S ELSE TERM_WAIT_S

\* seconds the process takes to exit on sig; SIGKILL is not handled
exit_delay(p, sig) ==
    CASE sig = "int" -> p.on_int
      [] sig = "term" -> p.on_term
      [] OTHER -> 0

ProcNames == {"mic", "monitor"}

\* the processes stop() goes through, in order
SiteProcs(site) == IF site = "dual" THEN <<"monitor">> ELSE <<"mic", "monitor">>

LadderIdle == [pc |-> "idle", queue |-> <<>>, sig |-> "", now |-> 0, deadline |-> 0]

NoneSent == [n \in ProcNames |-> <<>>]

NoCall == [op |-> "", mic |-> "", mon |-> "", raised |-> FALSE,
           ret_mic |-> 0, ret_mon |-> 0, files |-> FALSE]

\* what parecord can leave at the temporary name: nothing, a file of at most
\* 100 bytes, a WAV that _read_and_normalize converts, or a file on which it
\* returns b"" (wave.open raises, or the sample width is neither 2 nor 4)
TmpFiles == {"absent", "small", "wav", "unreadable"}

NoTmpFile == [writes |-> "absent", disk |-> "absent"]

\* a stop() that removes the file only after it has read a buffer from it
unlink_tmpfile_after_read(d, f) ==
    IF d.recording /\ d.tmpfile /\ f = "wav" THEN "absent" ELSE f

\* "monitor_path.unlink(missing_ok=True)" under "if self._monitor_tmpfile":
\* the file afterwards
unlink_tmpfile(d, f) ==
    IF d.recording /\ d.tmpfile THEN "absent" ELSE f

\* the lengths stop() can return for the monitor given the file on disk:
\* "exists() and st_size > 100", then _read_and_normalize
read_tmpfile_lens(d, f) ==
    IF f = "wav" THEN DualRecorder_stop_monitor_lens(d) \ {0} ELSE {0}

CaptureIdle ==
    /\ cap_site = "none"
    /\ cap_plan = [n \in ProcNames |-> NoProc]
    /\ tmp_file = NoTmpFile
    /\ cap_dual = NoDual
    /\ cap_meeting = NoMeeting
    /\ procs = [n \in ProcNames |-> NoProc]
    /\ ladder = LadderIdle
    /\ sent = NoneSent
    /\ cap_last = NoCall

CaptureInit ==
    /\ cap_site \in {"dual", "meeting"}
    /\ cap_plan \in [ProcNames -> ProcChoices]
    /\ cap_site = "dual" => cap_plan["mic"] = CHOOSE p \in ProcChoices : p.early
    /\ tmp_file \in [writes : TmpFiles, disk : {"absent"}]
    /\ cap_site = "meeting" => tmp_file = NoTmpFile
    /\ cap_dual = NewDualRecorder
    /\ cap_meeting = NewMeetingRecorder
    /\ procs = [n \in ProcNames |-> NoProc]
    /\ ladder = LadderIdle
    /\ sent = NoneSent
    /\ cap_last = NoCall

Resting == ladder.pc \in {"idle", "returned"}

\* DualRecorder.start
DualStart ==
    /\ cap_site = "dual"
    /\ Resting
    /\ \E out \in StartOutcomes, mon \in MonitorStart :
         LET d == DualRecorder_start(cap_dual, out, mon) IN
         /\ cap_dual' = d
         /\ procs' = IF cap_dual.recording THEN procs
                     ELSE [mic |-> NoProc,
                           monitor |-> IF d.monitor_proc THEN cap_plan["monitor"]
                                       ELSE NoProc]
         /\ tmp_file' = IF ~cap_dual.recording /\ d.monitor_proc
                        THEN [tmp_file EXCEPT !.disk = tmp_file.writes]
                        ELSE tmp_file
         /\ cap_last' = [NoCall EXCEPT !.op = "start", !.mic = out,
                           !.mon = IF cap_dual.recording THEN cap_last.mon ELSE mon,
                           !.raised = DualRecorder_start_raises(cap_dual, out)]
    /\ ladder' = LadderIdle
    /\ sent' = NoneSent
    /\ UNCHANGED <<cap_site, cap_plan, cap_meeting>>

\* the microphone stream of the DualRecorder delivers a block
DualCallback ==
    /\ cap_site = "dual"
    /\ Resting
    /\ cap_dual.mic.stream = "active"
    /\ cap_dual.mic.frames < MaxBlocks
    /\ cap_dual' = [cap_dual EXCEPT !.mic = audio_callback(@)]
    /\ UNCHANGED <<cap_site, cap_plan, tmp_file, cap_meeting, procs, ladder, sent, cap_last>>

\* MeetingRecorder.start
MeetingStartCall ==
    /\ cap_site = "meeting"
    /\ Resting
    /\ \E env \in MeetingStart :
         LET m == MeetingRecorder_start(cap_meeting, env) IN
         /\ cap_meeting' = m
         /\ procs' = IF MeetingRecorder_start_runtime_error(cap_meeting, env) THEN procs
                     ELSE [n \in ProcNames |->
                             IF (n = "mic" /\ m.mic_proc) \/ (n = "monitor" /\ m.monitor_proc)
                             THEN cap_plan[n] ELSE NoProc]
         /\ cap_last' = [NoCall EXCEPT !.op = "start", !.mon = env,
                           !.raised = MeetingRecorder_start_runtime_error(cap_meeting, env)
                                      \/ MeetingRecorder_start_os_error(cap_meeting, env)]
    /\ ladder' = LadderIdle
    /\ sent' = NoneSent
    /\ UNCHANGED <<cap_site, cap_plan, tmp_file, cap_dual>>

\* stop() of either recorder, up to the first process
StopBegin ==
    /\ Resting
    /\ LET rec == IF cap_site = "dual" THEN cap_dual.recording ELSE cap_meeting.recording IN
       IF rec
       THEN /\ ladder' = [LadderIdle EXCEPT !.pc = "poll", !.queue = SiteProcs(cap_site)]
            /\ cap_last' = [cap_last EXCEPT !.op = "stopping"]
       ELSE /\ ladder' = [LadderIdle EXCEPT !.pc = "returned"]
            /\ cap_last' = [NoCall EXCEPT !.op = "stop_idle"]
    /\ sent' = NoneSent
    /\ UNCHANGED <<cap_site, cap_plan, tmp_file, cap_dual, cap_meeting, procs>>

\* "if proc and proc.poll() is None": send_signal(SIGINT), or the next process
StopPoll ==
    /\ ladder.pc = "poll"
    /\ ladder.queue # <<>>
    /\ LET n == Head(ladder.queue)
           p == procs[n] IN
       IF ProcRunning(p, ladder.now)
       THEN /\ procs' = [procs EXCEPT ![n] = Signalled(p, ladder.now, exit_delay(p, "int"))]
            /\ sent' = [sent EXCEPT ![n] = Append(@, [sig |-> "int", at |-> ladder.now])]
            /\ ladder' = [ladder EXCEPT !.pc = "wait", !.sig = "int",
                                        !.deadline = ladder.now + wait_timeout("int")]
       ELSE /\ ladder' = [ladder EXCEPT !.queue = Tail(@)]
            /\ UNCHANGED <<procs, sent>>
    /\ UNCHANGED <<cap_site, cap_plan, tmp_file, cap_dual, cap_meeting, cap_last>>

\* a second passes inside proc.wait(timeout)
StopWaitTick ==
    /\ ladder.pc = "wait"
    /\ ladder.now < ladder.deadline
    /\ ProcRunning(procs[Head(ladder.queue)], ladder.now)
    /\ ladder' = [ladder EXCEPT !.now = @ + 1]
    /\ UNCHANGED <<cap_site, cap_plan, tmp_file, cap_dual, cap_meeting, procs, sent, cap_last>>

\* proc.wait(timeout) returns: the process has exited
StopWaitReturns ==
    /\ ladder.pc = "wait"
    /\ ~ProcRunning(procs[Head(ladder.queue)], ladder.now)
    /\ ladder' = [ladder EXCEPT !.pc = "poll", !.queue = Tail(@), !.sig = ""]
    /\ UNCHANGED <<cap_site, cap_plan, tmp_file, cap_dual, cap_meeting, procs, sent, cap_last>>

\* proc.wait(timeout) raises TimeoutExpired: terminate(), or kill()
StopWaitTimeout ==
    /\ ladder.pc = "wait"
    /\ ladder.now = ladder.deadline
    /\ procs[Head(ladder.queue)].exit_at >= ladder.now
    /\ LET n == Head(ladder.queue)
           p == procs[n]
           sig == escalate(ladder.sig) IN
       /\ procs' = [procs EXCEPT ![n] = Signalled(p, ladder.now, exit_delay(p, sig))]
       /\ sent' = [sent EXCEPT ![n] = Append(@, [sig |-> sig, at |-> ladder.now])]
       /\ ladder' = IF sig = "kill"
                    THEN [ladder EXCEPT !.pc = "poll", !.queue = Tail(@), !.sig = ""]
                    ELSE [ladder EXCEPT !.sig = sig,
                                        !.deadline = ladder.now + wait_timeout(sig)]
    /\ UNCHANGED <<cap_site, cap_plan, tmp_file, cap_dual, cap_meeting, cap_last>>

\* the rest of DualRecorder.stop: the buffers it returns
DualStopEnd ==
    /\ cap_site = "dual"
    /\ ladder.pc = "poll"
    /\ ladder.queue = <<>>
    /\ \E mon \in read_tmpfile_lens(cap_dual, tmp_file.disk) :
         cap_last' = [cap_last EXCEPT !.op = "stop",
                                      !.ret_mic = DualRecorder_stop_mic_len(cap_dual),
                                      !.ret_mon = mon]
    /\ tmp_file' = [tmp_file EXCEPT !.disk = unlink_tmpfile(cap_dual, @)]
    /\ cap_dual' = DualRecorder_stop(cap_dual)
    /\ ladder' = [ladder EXCEPT !.pc = "returned"]
    /\ UNCHANGED <<cap_site, cap_plan, cap_meeting, procs, sent>>

\* the rest of MeetingRecorder.stop: MeetingFiles or None
MeetingStopEnd ==
    /\ cap_site = "meeting"
    /\ ladder.pc = "poll"
    /\ ladder.queue = <<>>
    /\ cap_last' = [cap_last EXCEPT !.op = "stop",
                                    !.files = MeetingRecorder_stop_files(cap_meeting)]
    /\ cap_meeting' = MeetingRecorder_stop(cap_meeting)
    /\ ladder' = [ladder EXCEPT !.pc = "returned"]
    /\ UNCHANGED <<cap_site, cap_plan, tmp_file, cap_dual, procs, sent>>


-----------------------------------------------------------------------------
(* The text-generation calls of the pipelines: AICleanup.cleanup,
   AICleanup.cleanup_conversation (src/localwhispr/ai_cleanup.py) and
   ScreenshotCommand.execute (src/localwhispr/screenshot.py) *)

\* the texts handed to a call; the first two are blank under strip()
Texts == {"", "  ", "abre o terminal", "[Eu] oi [Outro] ola"}

IsBlank(t) == t \in {"", "  "}

\* what httpx.post and the lines after it do: ConnectError, another
\* exception (timeout, raise_for_status, response.json), a response whose
\* text is empty after strip(), a response with text
Services == {"connect_error", "error", "empty", "text"}

GenFunctions == {"cleanup", "cleanup_conversation", "execute"}

\* _capture_screenshot(): None, or the bytes of an image
Screenshots == {"none", "png"}

Returned(v) == [raised |-> FALSE, value |-> v]

\* AICleanup.cleanup and AICleanup.cleanup_conversation
cleanup(raw_text, service) ==
    IF IsBlank(raw_text) THEN Returned("")
    ELSE CASE service = "text" -> Returned("cleaned")
           [] OTHER -> Returned(raw_text)

\* ScreenshotCommand._text_only_command
text_only_command(voice_command, service) ==
    CASE service = "text" -> Returned("answer")
      [] service = "empty" -> Returned("")
      [] OTHER -> Returned("[ERRO: e]")

\* ScreenshotCommand.execute
execute(voice_command, shot, service) ==
    IF IsBlank(voice_command) THEN Returned("")
    ELSE IF shot = "none" THEN text_only_command(voice_command, service)
    ELSE CASE service = "text" -> Returned("answer")
           [] service = "empty" -> Returned("")
           [] service = "connect_error" -> Returned("[ERRO: Ollama]")
           [] OTHER -> Returned("[ERRO: e]")

NoGen == [fn |-> "", text |-> "", service |-> "", shot |-> ""]

GenerationIdle ==
    /\ gen = NoGen
    /\ gen_ret = Returned("")
    /\ gen_typed = "nothing"
    /\ gen_pc = "idle"

GenerationInit ==
    /\ gen \in [fn : GenFunctions, text : Texts, service : Services, shot : Screenshots]
    /\ gen_ret = Returned("")
    /\ gen_typed = "nothing"
    /\ gen_pc = "ready"

\* the pipeline makes its text-generation call
GenerationCall ==
    /\ gen_pc = "ready"
    /\ gen_ret' = IF gen.fn = "execute" THEN execute(gen.text, gen.shot, gen.service)
                  ELSE cleanup(gen.text, gen.service)
    /\ gen_pc' = "returned"
    /\ UNCHANGED <<gen, gen_typed>>

\* the lines of the pipeline after the call: type_text(cleaned_text) in the
\* dictation pipelines, "if result: type_text(result)" in _process_screenshot
GenerationDeliver ==
    /\ gen_pc = "returned"
    /\ gen_typed' = IF gen_ret.raised \/ (gen.fn = "execute" /\ gen_ret.value = "")
                    THEN "nothing" ELSE gen_ret.value
    /\ gen_pc' = "delivered"
    /\ UNCHANGED <<gen, gen_ret>>

-----------------------------------------------------------------------------
(* AudioRecorder and the callback context of its stream
   (src/visionflow/recorder.py). start() and stop() are called one at a time;
   sounddevice runs _audio_callback in its own thread while the stream is
   active, and stream.stop() returns once the running callback has ended. *)

\* stop() reading the buffer before it stops the stream
stop_next_reads_first(pc, stream) ==
    CASE pc = "stop_flag" -> "stop_build"
      [] pc = "stop_build" -> "stop_read"
      [] pc = "stop_read" -> IF stream = "none" THEN "idle" ELSE "stop_stream"
      [] pc = "stop_stream" -> "stop_close"
      [] OTHER -> "idle"

\* the statements of stop() in order: the flag, stream.stop(), stream.close(),
\* _build_wav() (stop_build: called, stop_read: reading _frames), return
stop_next(pc, stream) ==
    CASE pc = "stop_flag" -> IF stream = "none" THEN "stop_build" ELSE "stop_stream"
      [] pc = "stop_stream" -> "stop_close"
      [] pc = "stop_close" -> "stop_build"
      [] pc = "stop_build" -> "stop_read"
      [] OTHER -> "idle"

ThreadIdle ==
    /\ ar = NewAudioRecorder
    /\ ar_main = "parked"
    /\ ar_cb = "parked"
    /\ ar_ret = 0
    /\ ar_stops = 0

ThreadInit ==
    /\ ar = NewAudioRecorder
    /\ ar_main = "idle"
    /\ ar_cb = "idle"
    /\ ar_ret = 0
    /\ ar_stops = 0

\* start() is called: the block under the lock
ArStartLocked ==
    /\ ar_main = "idle"
    /\ IF ar.recording
       THEN UNCHANGED <<ar, ar_main>>
       ELSE /\ ar' = [ar EXCEPT !.frames = 0, !.recording = TRUE]
            /\ ar_main' = "start_open"
    /\ ar_stops' = 0
    /\ UNCHANGED <<ar_cb, ar_ret>>

\* self._stream = sd.InputStream(...), which can raise
ArStartOpen ==
    /\ ar_main = "start_open"
    /\ \/ ar' = [ar EXCEPT !.stream = "created"] /\ ar_main' = "start_stream"
       \/ ar_main' = "idle" /\ UNCHANGED ar
    /\ UNCHANGED <<ar_cb, ar_ret, ar_stops>>

\* self._stream.start(), which can raise
ArStartStream ==
    /\ ar_main = "start_stream"
    /\ \/ ar' = [ar EXCEPT !.stream = "active"]
       \/ UNCHANGED ar
    /\ ar_main' = "idle"
    /\ UNCHANGED <<ar_cb, ar_ret, ar_stops>>

\* stop() is called: the block under the lock
ArStopFlag ==
    /\ ar_main = "idle"
    /\ ar' = [ar EXCEPT !.recording = FALSE]
    /\ ar_main' = stop_next("stop_flag", ar.stream)
    /\ UNCHANGED <<ar_cb, ar_ret, ar_stops>>

\* self._stream.stop(): returns when no callback is running
ArStopStream ==
    /\ ar_main = "stop_stream"
    /\ ar_cb = "idle"
    /\ ar' = [ar EXCEPT !.stream = "stopped"]
    /\ ar_main' = stop_next(ar_main, ar.stream)
    /\ UNCHANGED <<ar_cb, ar_ret, ar_stops>>

\* self._stream.close(); self._stream = None
ArStopClose ==
    /\ ar_main = "stop_close"
    /\ ar' = [ar EXCEPT !.stream = "none"]
    /\ ar_main' = stop_next(ar_main, ar.stream)
    /\ UNCHANGED <<ar_cb, ar_ret, ar_stops>>

\* _build_wav(): called, reading self._frames, returned
ArStopBuild ==
    /\ ar_main \in {"stop_build", "stop_read"}
    /\ ar_main' = stop_next(ar_main, ar.stream)
    /\ ar_ret' = IF ar_main = "stop_read" THEN build_wav_len(ar.frames) ELSE ar_ret
    /\ ar_stops' = IF ar_main = "stop_read" THEN Min(ar_stops + 1, MaxStops) ELSE ar_stops
    /\ UNCHANGED <<ar, ar_cb>>

\* the stream calls _audio_callback
ArCallbackEnter ==
    /\ ar.stream = "active"
    /\ ar_cb = "idle"
    /\ ar.frames < MaxFrames
    /\ ar_cb' = "test"
    /\ UNCHANGED <<ar, ar_main, ar_ret, ar_stops>>

\* "if self._recording:"
ArCallbackTest ==
    /\ ar_cb = "test"
    /\ ar_cb' = IF ar.recording THEN "append" ELSE "idle"
    /\ UNCHANGED <<ar, ar_main, ar_ret, ar_stops>>

\* "self._frames.append(indata.copy())"
ArCallbackAppend ==
    /\ ar_cb = "append"
    /\ ar' = [ar EXCEPT !.frames = Min(@ + 1, MaxFrames)]
    /\ ar_cb' = "idle"
    /\ UNCHANGED <<ar_main, ar_ret, ar_stops>>

-----------------------------------------------------------------------------
(* LocalWhisprDaemon (src/localwhispr/server.py): one client connection *)

\* the words a client sends; the match of _dispatch is exact
Words == {"dictate", "screenshot", "meeting", "status", "stop", "ping", "quit",
          "Dictate", ""}

\* the bytes read from the socket: a word, for some between white space
Raws == {<<"", w, "">> : w \in Words}
        \cup {<<" ", "ping", "\n">>, <<"", "Dictate", "\n">>, <<" ", "", "\n">>}

\* data.decode().strip()
strip(raw) == raw[2]

\* what "await reader.read(1024)" and decode() do: data, asyncio.TimeoutError,
\* UnicodeDecodeError
Reads == {"data", "timeout", "undecodable"}

NoConn == [command |-> "", written |-> <<>>, closed |-> FALSE, serving |-> FALSE]

DaemonIdle == conn = NoConn

DaemonInit == conn = [NoConn EXCEPT !.serving = TRUE]

\* the connection once handle_client has written resp and closed the writer
Answered(command, resp) ==
    [command |-> command, written |-> <<resp>>, closed |-> TRUE, serving |-> TRUE]

\* a ping that also clears the mode
ping_clears_mode ==
    /\ lastOp' = Op("ping", "", "pong", {})
    /\ _mode' = ""
    /\ UNCHANGED <<_recording, _processing, _capture_monitor, _meeting_config,
                   recorderFields, workers>>

\* case "ping"
ping ==
    /\ lastOp' = Op("ping", "", "pong", {})
    /\ UNCHANGED <<sessionFields, recorderFields, workers>>

\* case "quit": the shutdown is scheduled on the event loop
quit ==
    /\ lastOp' = Op("quit", "", "OK bye", {})
    /\ UNCHANGED <<sessionFields, recorderFields, workers>>

\* case _
unknown_command(command) ==
    /\ lastOp' = Op("unknown", command, "ERR comando desconhecido: " \o command, {})
    /\ UNCHANGED <<sessionFields, recorderFields, workers>>

\* _dispatch
dispatch(command) ==
    CASE command = "dictate" -> toggle_dictation
      [] command = "screenshot" -> toggle_screenshot
      [] command = "meeting" -> toggle_meeting
      [] command = "status" -> get_status
      [] command = "stop" -> force_stop
      [] command = "ping" -> ping
      [] command = "quit" -> quit
      [] OTHER -> unknown_command(command)

\* handle_client with a command read in time
HandleCommand ==
    /\ conn.serving
    /\ \E raw \in Raws :
         /\ dispatch(strip(raw))
         /\ conn' = [Answered(strip(raw), lastOp'.resp)
                       EXCEPT !.serving = strip(raw) # "quit"]

\* handle_client when the read times out or the bytes do not decode
HandleReadError ==
    /\ conn.serving
    /\ \E read \in Reads \ {"data"} :
         LET resp == IF read = "timeout" THEN "ERR timeout" ELSE "ERR e" IN
         /\ lastOp' = Op(read, "", resp, {})
         /\ conn' = Answered("", resp)
    /\ UNCHANGED <<sessionFields, recorderFields, workers>>

\* the threads and callbacks of the session while the daemon serves
DaemonBackground ==
    /\ conn.serving
    /\ WorkerNext \/ AudioCallback \/ DualAudioCallback
    /\ UNCHANGED conn

-----------------------------------------------------------------------------
(* MeetingRecorder.start: the output directory of a meeting
   (src/visionflow/meeting.py) *)

TICK_SECONDS == 20       \* one tick of the wall clock
SECONDS_PER_MINUTE == 60

\* strftime("%Y-%m-%d_%H-%M"): the name keeps the minute and drops the seconds
strftime(t) == (t * TICK_SECONDS) \div SECONDS_PER_MINUTE

NoMeetingRec == [recording |-> FALSE, output_dir |-> -1]

DirIdle ==
    /\ wall_clock = 0
    /\ meeting_rec = NoMeetingRec
    /\ session_dirs = <<>>

DirInit ==
    /\ wall_clock \in 0 .. 2
    /\ meeting_rec = NoMeetingRec
    /\ session_dirs = <<>>

\* time passes
ClockTick ==
    /\ wall_clock < MaxClock
    /\ wall_clock' = wall_clock + 1
    /\ UNCHANGED <<meeting_rec, session_dirs>>

\* _start_meeting: a new MeetingRecorder and its start(); env as for
\* MeetingRecorder_start. The directory is made before the captures are
\* spawned, and a start that raises OSError leaves it behind.
MeetingDirStart ==
    /\ ~meeting_rec.recording
    /\ Len(session_dirs) < MaxSessions
    /\ \E env \in MeetingStart :
         IF MeetingRecorder_start_runtime_error(NewMeetingRecorder, env)
         THEN UNCHANGED <<meeting_rec, session_dirs>>
         ELSE /\ meeting_rec' =
                   [recording |-> MeetingRecorder_start(NewMeetingRecorder, env).recording,
                    output_dir |-> strftime(wall_clock)]
              /\ session_dirs' =
                   IF MeetingRecorder_start(NewMeetingRecorder, env).recording
                   THEN Append(session_dirs, strftime(wall_clock))
                   ELSE session_dirs
    /\ UNCHANGED wall_clock

\* a meeting toggled off, or force_stop: MeetingRecorder.stop() writes the
\* mixed file into _output_dir
MeetingDirStop ==
    /\ meeting_rec.recording
    /\ meeting_rec' = [meeting_rec EXCEPT !.recording = FALSE]
    /\ UNCHANGED <<wall_clock, session_dirs>>

-----------------------------------------------------------------------------
(* The daemon *)

NoOp == Op("init", "", "", {})

SessionInit ==
    /\ _recording = FALSE
    /\ _processing = FALSE
    /\ _mode = ""
    /\ _capture_monitor \in BOOLEAN
    /\ _meeting_config \in BOOLEAN
    /\ _recorder = NewAudioRecorder
    /\ _dual_recorder = NoDual
    /\ _meeting_recorder = NoMeeting
    /\ workers = <<>>
    /\ unreferenced = NoneUnreferenced
    /\ lastOp = NoOp

MergeIdle ==
    /\ mic_segments = <<>>
    /\ monitor_segments = <<>>
    /\ merged = <<>>
    /\ merge_pc = "idle"

\* LocalWhisprDaemon._dispatch: one command of a client
Command ==
    \/ toggle_dictation
    \/ toggle_screenshot
    \/ toggle_meeting
    \/ get_status
    \/ force_stop

FunctionsIdle == MergeIdle /\ ChunkIdle /\ SummaryIdle /\ MonitorIdle /\ CaptureIdle /\ GenerationIdle /\ ThreadIdle /\ DaemonIdle /\ DirIdle /\ SilenceIdle /\ MixIdle /\ HotkeyIdle

Init == SessionInit /\ FunctionsIdle

SessionNext ==
    \/ toggle_dictation /\ UNCHANGED functionVars
    \/ toggle_screenshot /\ UNCHANGED functionVars
    \/ toggle_meeting /\ UNCHANGED functionVars
    \/ get_status /\ UNCHANGED functionVars
    \/ force_stop /\ UNCHANGED functionVars
    \/ WorkerNext /\ UNCHANGED functionVars
    \/ AudioCallback /\ UNCHANGED functionVars
    \/ DualAudioCallback /\ UNCHANGED functionVars

Next == SessionNext

Spec == Init /\ [][Next]_vars

\* the scheduler runs every thread that can run
FairSpec == Spec /\ WF_vars(WorkerNext /\ UNCHANGED functionVars)

\* _merge_speaker_segments alone, over every pair of bounded segment lists
SessionParked == SessionInit /\ ~_capture_monitor /\ _meeting_config

MergeSpecInit == SessionParked /\ MergeInit /\ ChunkIdle /\ SummaryIdle /\ MonitorIdle /\ CaptureIdle /\ GenerationIdle /\ ThreadIdle /\ DaemonIdle /\ DirIdle /\ SilenceIdle /\ MixIdle /\ HotkeyIdle

MergeNext == MergeCall /\ UNCHANGED <<sessionVars, chunkVars, summaryVars, monitorVars, captureVars, generationVars, threadVars, daemonVars, dirVars, silenceVars, mixVars, hotkeyVars>>

MergeSpec == MergeSpecInit /\ [][MergeNext]_vars

\* transcribe_meeting alone, over every file of up to MaxSamples samples
ChunkSpecInit == SessionParked /\ MergeIdle /\ ChunkInit /\ SummaryIdle /\ MonitorIdle /\ CaptureIdle /\ GenerationIdle /\ ThreadIdle /\ DaemonIdle /\ DirIdle /\ SilenceIdle /\ MixIdle /\ HotkeyIdle

ChunkNext == TranscribeMeeting /\ UNCHANGED <<sessionVars, mergeVars, summaryVars, monitorVars, captureVars, generationVars, threadVars, daemonVars, dirVars, silenceVars, mixVars, hotkeyVars>>

ChunkSpec == ChunkSpecInit /\ [][ChunkNext]_vars

\* generate_summary alone, over every transcription of up to MaxWords words
SummarySpecInit == SessionParked /\ MergeIdle /\ ChunkIdle /\ SummaryInit /\ MonitorIdle /\ CaptureIdle /\ GenerationIdle /\ ThreadIdle /\ DaemonIdle /\ DirIdle /\ SilenceIdle /\ MixIdle /\ HotkeyIdle

SummaryNext == GenerateSummary /\ UNCHANGED <<sessionVars, mergeVars, chunkVars, monitorVars, captureVars, generationVars, threadVars, daemonVars, dirVars, silenceVars, mixVars, hotkeyVars>>

SummarySpec == SummarySpecInit /\ [][SummaryNext]_vars

\* a WavTailMonitor alone, polled while its file appears, grows and goes
MonitorSpecInit == SessionParked /\ MergeIdle /\ ChunkIdle /\ SummaryIdle /\ MonitorInit /\ CaptureIdle /\ GenerationIdle /\ ThreadIdle /\ DaemonIdle /\ DirIdle /\ SilenceIdle /\ MixIdle /\ HotkeyIdle

MonitorNext ==
    \/ update /\ UNCHANGED <<sessionVars, mergeVars, chunkVars, summaryVars, captureVars, generationVars, threadVars, daemonVars, dirVars, silenceVars, mixVars, hotkeyVars>>
    \/ update_raw /\ UNCHANGED <<sessionVars, mergeVars, chunkVars, summaryVars, captureVars, generationVars, threadVars, daemonVars, dirVars, silenceVars, mixVars, hotkeyVars>>
    \/ FileGrows /\ UNCHANGED <<sessionVars, mergeVars, chunkVars, summaryVars, captureVars, generationVars, threadVars, daemonVars, dirVars, silenceVars, mixVars, hotkeyVars>>
    \/ FileDisappears /\ UNCHANGED <<sessionVars, mergeVars, chunkVars, summaryVars, captureVars, generationVars, threadVars, daemonVars, dirVars, silenceVars, mixVars, hotkeyVars>>

MonitorSpec == MonitorSpecInit /\ [][MonitorNext]_vars

\* The capture recorders, started and stopped apart from the daemon
CaptureSpecInit ==
    SessionParked /\ MergeIdle /\ ChunkIdle /\ SummaryIdle /\ MonitorIdle /\ CaptureInit /\ GenerationIdle /\ ThreadIdle /\ DaemonIdle /\ DirIdle /\ SilenceIdle /\ MixIdle /\ HotkeyIdle

CaptureNext ==
    \/ DualStart /\ UNCHANGED <<sessionVars, mergeVars, chunkVars, summaryVars, monitorVars, generationVars, threadVars, daemonVars, dirVars, silenceVars, mixVars, hotkeyVars>>
    \/ DualCallback /\ UNCHANGED <<sessionVars, mergeVars, chunkVars, summaryVars, monitorVars, generationVars, threadVars, daemonVars, dirVars, silenceVars, mixVars, hotkeyVars>>
    \/ MeetingStartCall /\ UNCHANGED <<sessionVars, mergeVars, chunkVars, summaryVars, monitorVars, generationVars, threadVars, daemonVars, dirVars, silenceVars, mixVars, hotkeyVars>>
    \/ StopBegin /\ UNCHANGED <<sessionVars, mergeVars, chunkVars, summaryVars, monitorVars, generationVars, threadVars, daemonVars, dirVars, silenceVars, mixVars, hotkeyVars>>
    \/ StopPoll /\ UNCHANGED <<sessionVars, mergeVars, chunkVars, summaryVars, monitorVars, generationVars, threadVars, daemonVars, dirVars, silenceVars, mixVars, hotkeyVars>>
    \/ StopWaitTick /\ UNCHANGED <<sessionVars, mergeVars, chunkVars, summaryVars, monitorVars, generationVars, threadVars, daemonVars, dirVars, silenceVars, mixVars, hotkeyVars>>
    \/ StopWaitReturns /\ UNCHANGED <<sessionVars, mergeVars, chunkVars, summaryVars, monitorVars, generationVars, threadVars, daemonVars, dirVars, silenceVars, mixVars, hotkeyVars>>
    \/ StopWaitTimeout /\ UNCHANGED <<sessionVars, mergeVars, chunkVars, summaryVars, monitorVars, generationVars, threadVars, daemonVars, dirVars, silenceVars, mixVars, hotkeyVars>>
    \/ DualStopEnd /\ UNCHANGED <<sessionVars, mergeVars, chunkVars, summaryVars, monitorVars, generationVars, threadVars, daemonVars, dirVars, silenceVars, mixVars, hotkeyVars>>
    \/ MeetingStopEnd /\ UNCHANGED <<sessionVars, mergeVars, chunkVars, summaryVars, monitorVars, generationVars, threadVars, daemonVars, dirVars, silenceVars, mixVars, hotkeyVars>>

CaptureSpec == CaptureSpecInit /\ [][CaptureNext]_vars

\* the text-generation calls alone, over every input and service behaviour
GenerationSpecInit == SessionParked /\ MergeIdle /\ ChunkIdle /\ SummaryIdle /\ MonitorIdle /\ CaptureIdle /\ GenerationInit /\ ThreadIdle /\ DaemonIdle /\ DirIdle /\ SilenceIdle /\ MixIdle /\ HotkeyIdle

GenerationNext ==
    \/ GenerationCall /\ UNCHANGED <<sessionVars, mergeVars, chunkVars, summaryVars, monitorVars, captureVars, threadVars, daemonVars, dirVars, silenceVars, mixVars, hotkeyVars>>
    \/ GenerationDeliver /\ UNCHANGED <<sessionVars, mergeVars, chunkVars, summaryVars, monitorVars, captureVars, threadVars, daemonVars, dirVars, silenceVars, mixVars, hotkeyVars>>

GenerationSpec == GenerationSpecInit /\ [][GenerationNext]_vars

\* an AudioRecorder with its callback context, under every interleaving
ThreadSpecInit == SessionParked /\ MergeIdle /\ ChunkIdle /\ SummaryIdle /\ MonitorIdle /\ CaptureIdle /\ GenerationIdle /\ ThreadInit /\ DaemonIdle /\ DirIdle /\ SilenceIdle /\ MixIdle /\ HotkeyIdle

ThreadNext ==
    \/ ArStartLocked /\ UNCHANGED <<sessionVars, mergeVars, chunkVars, summaryVars, monitorVars, captureVars, generationVars, daemonVars, dirVars, silenceVars, mixVars, hotkeyVars>>
    \/ ArStartOpen /\ UNCHANGED <<sessionVars, mergeVars, chunkVars, summaryVars, monitorVars, captureVars, generationVars, daemonVars, dirVars, silenceVars, mixVars, hotkeyVars>>
    \/ ArStartStream /\ UNCHANGED <<sessionVars, mergeVars, chunkVars, summaryVars, monitorVars, captureVars, generationVars, daemonVars, dirVars, silenceVars, mixVars, hotkeyVars>>
    \/ ArStopFlag /\ UNCHANGED <<sessionVars, mergeVars, chunkVars, summaryVars, monitorVars, captureVars, generationVars, daemonVars, dirVars, silenceVars, mixVars, hotkeyVars>>
    \/ ArStopStream /\ UNCHANGED <<sessionVars, mergeVars, chunkVars, summaryVars, monitorVars, captureVars, generationVars, daemonVars, dirVars, silenceVars, mixVars, hotkeyVars>>
    \/ ArStopClose /\ UNCHANGED <<sessionVars, mergeVars, chunkVars, summaryVars, monitorVars, captureVars, generationVars, daemonVars, dirVars, silenceVars, mixVars, hotkeyVars>>
    \/ ArStopBuild /\ UNCHANGED <<sessionVars, mergeVars, chunkVars, summaryVars, monitorVars, captureVars, generationVars, daemonVars, dirVars, silenceVars, mixVars, hotkeyVars>>
    \/ ArCallbackEnter /\ UNCHANGED <<sessionVars, mergeVars, chunkVars, summaryVars, monitorVars, captureVars, generationVars, daemonVars, dirVars, silenceVars, mixVars, hotkeyVars>>
    \/ ArCallbackTest /\ UNCHANGED <<sessionVars, mergeVars, chunkVars, summaryVars, monitorVars, captureVars, generationVars, daemonVars, dirVars, silenceVars, mixVars, hotkeyVars>>
    \/ ArCallbackAppend /\ UNCHANGED <<sessionVars, mergeVars, chunkVars, summaryVars, monitorVars, captureVars, generationVars, daemonVars, dirVars, silenceVars, mixVars, hotkeyVars>>

ThreadSpec == ThreadSpecInit /\ [][ThreadNext]_vars

\* the daemon answering connections, with the session behind it
DaemonSpecInit == SessionInit /\ MergeIdle /\ ChunkIdle /\ SummaryIdle /\ MonitorIdle /\ CaptureIdle /\ GenerationIdle /\ ThreadIdle /\ DaemonInit /\ DirIdle /\ SilenceIdle /\ MixIdle /\ HotkeyIdle

DaemonNext ==
    \/ HandleCommand /\ UNCHANGED <<mergeVars, chunkVars, summaryVars, monitorVars, captureVars, generationVars, threadVars, dirVars, silenceVars, mixVars, hotkeyVars>>
    \/ HandleReadError /\ UNCHANGED <<mergeVars, chunkVars, summaryVars, monitorVars, captureVars, generationVars, threadVars, dirVars, silenceVars, mixVars, hotkeyVars>>
    \/ DaemonBackground /\ UNCHANGED <<mergeVars, chunkVars, summaryVars, monitorVars, captureVars, generationVars, threadVars, dirVars, silenceVars, mixVars, hotkeyVars>>

DaemonSpec == DaemonSpecInit /\ [][DaemonNext]_vars

\* meeting captures started and stopped while the wall clock runs
DirSpecInit == SessionParked /\ MergeIdle /\ ChunkIdle /\ SummaryIdle /\ MonitorIdle /\ CaptureIdle /\ GenerationIdle /\ ThreadIdle /\ DaemonIdle /\ DirInit /\ SilenceIdle /\ MixIdle /\ HotkeyIdle

DirNext ==
    \/ ClockTick /\ UNCHANGED <<sessionVars, mergeVars, chunkVars, summaryVars, monitorVars, captureVars, generationVars, threadVars, daemonVars, silenceVars, mixVars, hotkeyVars>>
    \/ MeetingDirStart /\ UNCHANGED <<sessionVars, mergeVars, chunkVars, summaryVars, monitorVars, captureVars, generationVars, threadVars, daemonVars, silenceVars, mixVars, hotkeyVars>>
    \/ MeetingDirStop /\ UNCHANGED <<sessionVars, mergeVars, chunkVars, summaryVars, monitorVars, captureVars, generationVars, threadVars, daemonVars, silenceVars, mixVars, hotkeyVars>>

DirSpec == DirSpecInit /\ [][DirNext]_vars

\* a WavTailMonitor polled while its file grows and goes and time passes
SilenceSpecInit == SessionParked /\ MergeIdle /\ ChunkIdle /\ SummaryIdle /\ SilenceInit /\ CaptureIdle /\ GenerationIdle /\ ThreadIdle /\ DaemonIdle /\ DirIdle /\ MixIdle /\ HotkeyIdle

SilenceNext ==
    \/ timed_update /\ UNCHANGED <<sessionVars, mergeVars, chunkVars, summaryVars, captureVars, generationVars, threadVars, daemonVars, dirVars, mixVars, hotkeyVars>>
    \/ timed_update_raw /\ UNCHANGED <<sessionVars, mergeVars, chunkVars, summaryVars, captureVars, generationVars, threadVars, daemonVars, dirVars, mixVars, hotkeyVars>>
    \/ FileGrows /\ UNCHANGED silenceVars /\ UNCHANGED <<sessionVars, mergeVars, chunkVars, summaryVars, captureVars, generationVars, threadVars, daemonVars, dirVars, mixVars, hotkeyVars>>
    \/ FileDisappears /\ UNCHANGED silenceVars /\ UNCHANGED <<sessionVars, mergeVars, chunkVars, summaryVars, captureVars, generationVars, threadVars, daemonVars, dirVars, mixVars, hotkeyVars>>
    \/ MonoTick /\ UNCHANGED <<sessionVars, mergeVars, chunkVars, summaryVars, captureVars, generationVars, threadVars, daemonVars, dirVars, mixVars, hotkeyVars>>

SilenceSpec == SilenceSpecInit /\ [][SilenceNext]_vars

\* _mix_audio alone, over every pair of sources of up to MaxMixLen samples
MixSpecInit == SessionParked /\ MergeIdle /\ ChunkIdle /\ SummaryIdle /\ MonitorIdle /\ CaptureIdle /\ GenerationIdle /\ ThreadIdle /\ DaemonIdle /\ DirIdle /\ SilenceIdle /\ MixInit /\ HotkeyIdle

MixNext == MixAudio /\ UNCHANGED <<sessionVars, mergeVars, chunkVars, summaryVars, monitorVars, captureVars, generationVars, threadVars, daemonVars, dirVars, silenceVars, hotkeyVars>>

MixSpec == MixSpecInit /\ [][MixNext]_vars

\* a HotkeyListener alone, given key events in any order
HotkeySpecInit == SessionParked /\ MergeIdle /\ ChunkIdle /\ SummaryIdle /\ MonitorIdle /\ CaptureIdle /\ GenerationIdle /\ ThreadIdle /\ DaemonIdle /\ DirIdle /\ SilenceIdle /\ MixIdle /\ HotkeyInit

HotkeyNext ==
    \/ KeyDown /\ UNCHANGED <<sessionVars, mergeVars, chunkVars, summaryVars, monitorVars, captureVars, generationVars, threadVars, daemonVars, dirVars, silenceVars, mixVars>>
    \/ KeyUp /\ UNCHANGED <<sessionVars, mergeVars, chunkVars, summaryVars, monitorVars, captureVars, generationVars, threadVars, daemonVars, dirVars, silenceVars, mixVars>>
    \/ HotkeyTick /\ UNCHANGED <<sessionVars, mergeVars, chunkVars, summaryVars, monitorVars, captureVars, generationVars, threadVars, daemonVars, dirVars, silenceVars, mixVars>>

HotkeySpec == HotkeySpecInit /\ [][HotkeyNext]_vars

-----------------------------------------------------------------------------
(* Session claims *)

State == IF _processing THEN "processing" ELSE IF _recording THEN "recording" ELSE "idle"

AsrEffects == {"asr", "asr_mic", "asr_mon", "process_meeting"}

IsBusy(resp) == resp \in {"BUSY processando"} \cup {"BUSY modo=" \o m : m \in Modes \cup {""}}

IsErr(resp) ==
    resp \in {"ERR", "ERR meeting_config ausente", "ERR no_meeting_recorder",
              "ERR meeting_no_files"}

\* C1: whenever the session is recording or processing, its mode is one of
\* dictate, screenshot, meeting.
C1_ModeInvariant == (_recording \/ _processing) => _mode \in Modes

\* C2: at most one pipeline thread is alive at any moment.
C2_AtMostOneWorker == Len(workers) <= 1

\* C3: the life cycle of a mode m. From idle an accepted toggle(m) gives
\* recording(m); from recording(m) a toggle(m) with a long enough capture gives
\* processing(m) and one more pipeline thread; processing(m) is left only for
\* idle and keeps its mode; and when a pipeline thread exits the session is
\* idle with no mode.
C3_Lifecycle ==
    [][ /\ \A m \in Modes :
            /\ (State = "idle" /\ lastOp'.op = m /\ "capture" \in lastOp'.eff)
                  => (State' = "recording" /\ _mode' = m)
            /\ (State = "recording" /\ _mode = m /\ lastOp'.op = m
                  /\ \A i \in DOMAIN lastOp'.lens : lastOp'.lens[i] >= 1000)
                  => (State' = "processing" /\ _mode' = m
                        /\ Len(workers') = Len(workers) + 1)
        /\ (State = "processing" /\ State' = "processing") => _mode' = _mode
        /\ (State = "processing" /\ State' # "processing") => State' = "idle"
        /\ ("exit" \in lastOp'.eff) => (State' = "idle" /\ _mode' = "")
      ]_vars

\* C4: a toggle(m) issued while the session is processing, or recording in
\* another mode, answers BUSY and changes no field of the session, no recorder
\* and no pipeline thread.
C4_BusyFrame ==
    [][ \A m \in Modes :
          (lastOp'.op = m /\ (_processing \/ (_recording /\ _mode # m)))
             => /\ IsBusy(lastOp'.resp)
                /\ UNCHANGED <<sessionFields, recorderFields, workers>>
      ]_vars

C4_Witness ==
    /\ lastOp.op = "meeting"
    /\ lastOp.resp = "BUSY modo=dictate"
    /\ _recording /\ _mode = "dictate" /\ _recorder.stream = "active"

\* no recorder object, referenced or not, is recording
NoCaptureRecording ==
    /\ ~_recorder.recording
    /\ ~_dual_recorder.recording
    /\ ~_meeting_recorder.recording
    /\ ~unreferenced.recording

\* C5: force_stop issued while recording(m) stops the capture, leaves the
\* session idle with no mode, does not set _processing, dispatches no pipeline
\* thread and does not call the recognizer.
C5_ForceStopDiscards ==
    [][ (lastOp'.op = "stop" /\ _recording /\ _mode \in Modes)
           => /\ ~_recording' /\ ~_processing' /\ _mode' = ""
              /\ workers' = workers
              /\ lastOp'.eff \cap (AsrEffects \cup {"spawn"}) = {}
              /\ NoCaptureRecording'
      ]_vars

\* C6: a session that is processing eventually stops processing, whatever the
\* pipeline does.
C6_ProcessingEnds == _processing ~> ~_processing

C6_Witness ==
    /\ _processing
    /\ lastOp.op = "run"
    /\ lastOp.in = "asr_raise"

\* C7: a dictate or screenshot capture whose buffers are all shorter than 1000
\* bytes dispatches no pipeline thread, calls no recognizer and leaves the
\* session idle with no mode.
C7_ShortCaptureSkipped ==
    [][ (/\ lastOp'.op \in {"dictate", "screenshot"}
         /\ lastOp'.lens # <<>>
         /\ \A i \in DOMAIN lastOp'.lens : lastOp'.lens[i] < 1000)
           => /\ workers' = workers
              /\ lastOp'.eff \cap (AsrEffects \cup {"spawn"}) = {}
              /\ ~_recording' /\ ~_processing' /\ _mode' = ""
      ]_vars

C7_Witness ==
    /\ lastOp.op = "dictate"
    /\ lastOp.lens = <<0, 998>>
    /\ lastOp.resp = "OK too_short"

\* C8: get_status changes no field of the session, of a recorder or of a
\* pipeline thread.
C8_StatusIsPure ==
    [][ lastOp'.op = "status"
           => UNCHANGED <<sessionFields, recorderFields, workers>> ]_vars

C8_Witness ==
    /\ lastOp.op = "status"
    /\ lastOp.resp = "STATUS idle"
    /\ _mode = "dictate"
    /\ Len(workers) = 1

\* C9: toggle(meeting) from idle with no monitor source answers ERR, starts no
\* capture process and leaves _recording, _processing and _mode as they were:
\* the session stays idle, and an idle session with no mode keeps no mode.
C9_NoMonitorFails ==
    [][ (lastOp'.op = "meeting" /\ lastOp'.in = "no_monitor")
           => /\ IsErr(lastOp'.resp)
              /\ UNCHANGED <<_recording, _processing, _mode>>
              /\ ~_recording' /\ ~_processing'
              /\ ~_meeting_recorder'.recording
              /\ MeetingProcs(_meeting_recorder') = 0
              /\ "capture" \notin lastOp'.eff
              /\ workers' = workers
      ]_vars

C9_Witness ==
    /\ lastOp.op = "meeting"
    /\ lastOp.in = "no_monitor"
    /\ lastOp.resp = "ERR"
    /\ _mode = ""

-----------------------------------------------------------------------------
(* Merge claims *)

RECURSIVE SplitLines(_)
\* the paragraphs of a returned text: its tokens between the "\n" tokens
SplitLines(tokens) ==
    IF tokens = <<>> THEN <<>>
    ELSE LET brk == {i \in DOMAIN tokens : tokens[i] = "\n"} IN
         IF brk = {} THEN <<tokens>>
         ELSE LET k == CHOOSE i \in brk : \A j \in brk : i <= j IN
              <<SubSeq(tokens, 1, k - 1)>> \o SplitLines(SubSeq(tokens, k + 1, Len(tokens)))

RECURSIVE Flatten(_)
Flatten(seqs) == IF seqs = <<>> THEN <<>> ELSE seqs[1] \o Flatten(Tail(seqs))

Range(f) == {f[i] : i \in DOMAIN f}

InputSegments == Range(mic_segments) \cup Range(monitor_segments)

StartOf(text) == (CHOOSE seg \in InputSegments : seg[3] = text)[1]

LabelOf(text) == IF \E seg \in Range(mic_segments) : seg[3] = text THEN "[Eu]" ELSE "[Outro]"

\* C10: the returned paragraphs hold the segments in nondecreasing start
\* time, every input text exactly once, each under the label of its source,
\* and no two adjacent paragraphs carry the same label; the example of the
\* specification (primary at 0 and 5, secondary at 2 and 3) gives three
\* paragraphs.
C10_MergeOrdersAndGroups ==
    merge_pc = "done" =>
      LET paras == SplitLines(merged)
          out == Flatten([i \in DOMAIN paras |-> Tail(paras[i])])
          starts == [i \in DOMAIN out |-> StartOf(out[i])]
      IN
      /\ Len(out) = Len(mic_segments) + Len(monitor_segments)
      /\ Range(out) = {seg[3] : seg \in InputSegments}
      /\ \A i \in DOMAIN starts : i > 1 => starts[i - 1] <= starts[i]
      /\ \A p \in DOMAIN paras :
            /\ Len(paras[p]) >= 2
            /\ paras[p][1] \in {"[Eu]", "[Outro]"}
            /\ \A k \in 2..Len(paras[p]) : LabelOf(paras[p][k]) = paras[p][1]
      /\ \A p \in DOMAIN paras : p > 1 => paras[p][1] # paras[p - 1][1]
      /\ (/\ mic_segments = <<(<<0, 1, "m1">>), (<<5, 6, "m2">>)>>
          /\ monitor_segments = <<(<<2, 3, "o1">>), (<<3, 4, "o2">>)>>)
            => merged = <<"[Eu]", "m1", "\n", "[Outro]", "o1", "o2", "\n", "[Eu]", "m2">>

C10_Witness ==
    /\ merge_pc = "done"
    /\ mic_segments = <<(<<0, 1, "m1">>), (<<5, 6, "m2">>)>>
    /\ monitor_segments = <<(<<2, 3, "o1">>), (<<3, 4, "o2">>)>>
    /\ Len(SplitLines(merged)) = 3

\* the position of a text in the list the two loops build: mic, then monitor
InputIndex(text) ==
    LET all == mic_segments \o monitor_segments IN
    CHOOSE i \in DOMAIN all : all[i][3] = text

\* C11: segments with equal start times keep the order of the input: a mic
\* segment comes before every monitor segment that starts at the same time,
\* and two segments of one source that start at the same time keep their
\* order.
C11_MergeIsStable ==
    merge_pc = "done" =>
      LET paras == SplitLines(merged)
          out == Flatten([i \in DOMAIN paras |-> Tail(paras[i])])
      IN
      \A i, j \in DOMAIN out :
         (i < j /\ StartOf(out[i]) = StartOf(out[j]))
            => InputIndex(out[i]) < InputIndex(out[j])

C11_Witness ==
    /\ merge_pc = "done"
    /\ mic_segments = <<(<<2, 3, "m1">>), (<<2, 3, "m2">>)>>
    /\ monitor_segments = <<(<<2, 3, "o1">>), (<<0, 1, "o2">>)>>
    /\ merged = <<"[Outro]", "o2", "\n", "[Eu]", "m1", "m2", "\n", "[Outro]", "o1">>

-----------------------------------------------------------------------------
(* transcribe_meeting claims *)

\* the lengths of the windows handed to the recognizer
WindowLengths == [i \in DOMAIN requests |-> requests[i][2] - requests[i][1]]

\* the requests are max(1, ceil(L/W)) consecutive windows that cover [0, L):
\* all of W samples but the last, which has the rest
WindowsCover ==
    LET W == CHUNK_DURATION_S * sample_rate
        n == Len(requests)
    IN /\ n >= 1
       /\ n * W >= audio
       /\ (n - 1) * W < audio \/ (audio = 0 /\ n = 1)
       /\ requests[1][1] = 0
       /\ requests[n][2] = audio
       /\ \A i \in 1..(n - 1) :
             /\ requests[i + 1][1] = requests[i][2]
             /\ WindowLengths[i] = W
       /\ WindowLengths[n] = audio - (n - 1) * W
       /\ audio > 0 => WindowLengths[n] > 0
       /\ audio = 700 * sample_rate => WindowLengths = <<W, W, 100 * sample_rate>>
       /\ audio = 600 * sample_rate => WindowLengths = <<W, W>>

\* C12 as stated: for every buffer of L samples the recognizer gets
\* max(1, ceil(L/W)) consecutive windows covering [0, L).
C12_Original == tm_pc = "done" => WindowsCover

\* C12: for a file of at least 1000 bytes the recognizer gets
\* max(1, ceil(L/W)) consecutive windows that cover [0, L), all of W samples
\* but the last, which is not empty when L > 0; for a smaller file it gets
\* no request.
C12_WindowsCover ==
    tm_pc = "done" =>
       IF st_size < MIN_FILE_BYTES THEN requests = <<>> ELSE WindowsCover

C12_Witness ==
    /\ tm_pc = "done"
    /\ sample_rate = 1
    /\ audio = 700
    /\ requests = <<(<<0, 300>>), (<<300, 600>>), (<<600, 700>>)>>

\* seconds of an emitted timestamp
TsSeconds(ts) ==
    IF Len(ts) = 3 THEN ts[1] * 3600 + ts[2] * 60 + ts[3] ELSE ts[1] * 60 + ts[2]

\* C13: every emitted line carries the time of its window (index times
\* window duration) plus the segment's start inside the window; the lines are
\* appended window by window; and when every window's segments are in order
\* and inside the window, the emitted times never decrease.
C13_AbsoluteTimes ==
    tm_pc = "done" =>
      /\ \A p \in DOMAIN tm_parts :
            LET i == tm_parts[p].chunk
                d == ((requests[i][2] - requests[i][1]) * TicksPerSecond) \div sample_rate
                rel == SegmentStarts(segments[i], d)[tm_parts[p].k]
            IN TsSeconds(tm_parts[p].ts) =
                  ((i - 1) * CHUNK_DURATION_S * TicksPerSecond + rel) \div TicksPerSecond
      /\ \A p, q \in DOMAIN tm_parts :
            p < q => \/ tm_parts[p].chunk < tm_parts[q].chunk
                     \/ /\ tm_parts[p].chunk = tm_parts[q].chunk
                        /\ tm_parts[p].k < tm_parts[q].k
      /\ (\A i \in DOMAIN segments : segments[i] \in {"none", "ordered"})
            => \A p \in DOMAIN tm_parts :
                  p > 1 => TsSeconds(tm_parts[p - 1].ts) <= TsSeconds(tm_parts[p].ts)

C13_Witness ==
    /\ tm_pc = "done"
    /\ sample_rate = 1
    /\ audio = 700
    /\ segments = <<"ordered", "ordered", "ordered">>
    /\ [p \in DOMAIN tm_parts |-> tm_parts[p].ts] =
          <<(<<0, 0>>), (<<4, 59>>), (<<5, 0>>), (<<9, 59>>), (<<10, 0>>), (<<11, 39>>)>>

-----------------------------------------------------------------------------
(* generate_summary claims *)

\* the blocks whose request returned a summary
SummarizedBlocks ==
    {i \in 1..(Len(gs_requests)) : gs_requests[i][1] = "block" /\ ollama[i] = "text"}

\* C14: at most 3000 words give exactly one request; n > 3000 words give
\* ceil(n/2500) block requests over consecutive blocks of 2500 words, in
\* order, followed by exactly one meta-summary request when at least two
\* blocks returned a summary, and by none otherwise.
C14_RequestCount ==
    gs_pc = "done" =>
      LET n == word_count
          b == Cardinality({i \in DOMAIN gs_requests : gs_requests[i][1] = "block"})
          metas == {i \in DOMAIN gs_requests : gs_requests[i][1] = "meta"}
      IN
      /\ n <= 3000 => gs_requests = <<(<<"summary", 0, n>>)>>
      /\ n > 3000 =>
           /\ (b - 1) * 2500 < n /\ n <= b * 2500
           /\ \A i \in 1..b :
                 gs_requests[i] = <<"block", (i - 1) * 2500,
                                    IF i = b THEN n ELSE i * 2500>>
           /\ IF Cardinality(SummarizedBlocks) >= 2
              THEN metas = {b + 1} /\ Len(gs_requests) = b + 1
              ELSE metas = {} /\ Len(gs_requests) = b
      /\ n = 2000 => Len(gs_requests) = 1
      /\ (n = 6000 /\ \A i \in 1..3 : ollama[i] = "text")
            => /\ Len(gs_requests) = 4
               /\ [i \in 1..4 |-> gs_requests[i][1]] = <<"block", "block", "block", "meta">>

C14_Witness ==
    /\ gs_pc = "done"
    /\ word_count = 6000
    /\ gs_requests = <<(<<"block", 0, 2500>>), (<<"block", 2500, 5000>>),
                       (<<"block", 5000, 6000>>), (<<"meta", 3, 0>>)>>

\* C15: when at least two blocks produced a summary and the meta-summary
\* request fails, the result is the labelled block summaries in block order,
\* separated, and is not empty.
C15_MetaFallback ==
    (/\ gs_pc = "done"
     /\ Cardinality(SummarizedBlocks) >= 2
     /\ ollama[Len(gs_requests)] = "fail")
       => /\ gs_result # <<>>
          /\ Len(gs_result) = 3 * Cardinality(SummarizedBlocks) - 1
          /\ \A i \in SummarizedBlocks :
                LET j == Cardinality({x \in SummarizedBlocks : x <= i}) IN
                /\ gs_result[3 * j - 2] = <<"## Parte", i>>
                /\ gs_result[3 * j - 1] = <<"summary", i>>
                /\ j > 1 => gs_result[3 * j - 3] = <<"---", 0>>

C15_Witness ==
    /\ gs_pc = "done"
    /\ ollama = <<"text", "empty", "text", "fail">>
    /\ gs_result = <<(<<"## Parte", 1>>), (<<"summary", 1>>), (<<"---", 0>>),
                     (<<"## Parte", 3>>), (<<"summary", 3>>)>>

\* the requests for a meta-summary among the requests made
MetaRequests == {i \in DOMAIN gs_requests : gs_requests[i][1] = "meta"}

\* C31: in _incremental_summary, when exactly one block returns a summary
\* there is no meta-summary request and the result is that summary under the
\* label of its source block; when no block returns a summary the result is
\* empty and there is no meta-summary request.
C31_SingleSummary ==
    (gs_pc = "done" /\ word_count > SUMMARY_WORD_LIMIT) =>
       /\ SummarizedBlocks = {} => (gs_result = <<>> /\ MetaRequests = {})
       /\ \A i \in SummarizedBlocks :
             SummarizedBlocks = {i} =>
                /\ MetaRequests = {}
                /\ gs_result = <<(<<"## Parte", i>>), (<<"summary", i>>)>>

\* of three blocks only the second returns a summary
C31_Witness ==
    /\ gs_pc = "done"
    /\ word_count = MaxWords
    /\ ollama = <<"fail", "text", "empty", "text">>
    /\ Len(gs_requests) = 3
    /\ gs_result = <<(<<"## Parte", 2>>), (<<"summary", 2>>)>>

\* C39: for a transcription of more than 3000 words generate_summary returns
\* a result that is not empty whenever a block request returned a summary,
\* whether the meta-summary request fails, times out or returns nothing.
C39_SummaryNotLost ==
    (gs_pc = "done" /\ word_count > SUMMARY_WORD_LIMIT /\ SummarizedBlocks # {})
        => gs_result # <<>>

\* the same when the meta-summary request raises or is not made
C39_SummaryKeptOnFailure ==
    (/\ gs_pc = "done" /\ word_count > SUMMARY_WORD_LIMIT /\ SummarizedBlocks # {}
     /\ (MetaRequests # {} => ollama[Len(gs_requests)] # "empty"))
        => gs_result # <<>>

-----------------------------------------------------------------------------
(* WavTailMonitor claims *)

IsPoll == poll.op \in {"update", "update_raw"}

\* a RIFF/WAVE file with fmt, then any other chunks, then data
WellFormed(w) == w.kind = "riff" /\ w.channels >= 1 /\ w.bits >= 8

\* C16: a poll that finds a well-formed file whose header is all on disk
\* parses it and recovers the channel count, the sample rate, the sample
\* width and the data offset, whatever chunks lie between fmt and data.
C16_HeaderRecovered ==
    (/\ IsPoll /\ poll.io = "ok"
     /\ file.exists
     /\ WellFormed(wav_layout)
     /\ file.size >= DataOffset(wav_layout))
       => /\ monitor._header_parsed
          /\ monitor._n_channels = wav_layout.channels
          /\ monitor._sample_rate = wav_layout.rate
          /\ monitor._sample_width * 8 = wav_layout.bits
          /\ monitor._data_offset = DataOffset(wav_layout)

\* C17: no poll raises, and as long as no header has been parsed the level
\* and the raw RMS are 0, whatever the file is and however it comes and goes.
C17_NeverRaises ==
    /\ ~poll.raised
    /\ ~monitor._header_parsed => (monitor._level = 0 /\ monitor._raw_rms = 0)

C17_Witness ==
    /\ poll.op = "update"
    /\ wav_layout.kind = "late_fmt"
    /\ file.exists /\ file.size > HEADER_READ_BYTES
    /\ ~monitor._header_parsed
    /\ monitor._n_channels = 0
    /\ monitor._last_file_size = file.size

\* C18: the level is between 0 and 1 and does not decrease when the raw RMS
\* grows; a raw RMS at or below the floor of -45 dB gives 0, one at or above
\* the ceiling of -5 dB gives 1, and a window of zero samples gives 0.
C18_LevelMapping ==
    /\ 0 <= monitor._level /\ monitor._level <= LevelOne
    /\ monitor._raw_rms = 0 => monitor._level = 0
    /\ monitor._raw_rms <= 562341 => monitor._level = 0
    /\ monitor._raw_rms >= 56234133 => monitor._level = LevelOne
    /\ \A r \in WindowRms :
          /\ r <= monitor._raw_rms => to_perceptual(r) <= monitor._level
          /\ r >= monitor._raw_rms => to_perceptual(r) >= monitor._level

C18_Witness ==
    /\ poll.op = "update"
    /\ monitor._raw_rms = 5623414
    /\ monitor._level = 20

\* a poll that read bytes of a file with a parsed header
PollRead ==
    /\ poll.op \in {"update", "update_raw"}
    /\ monitor._header_parsed
    /\ poll.length > 0

\* C28: on every poll with a parsed header the bytes read are a bounded tail
\* window: at most CHUNK_BYTES long, at or after the data offset and inside
\* the file, a whole number of frames long, and starting a whole number of
\* frames past the data offset, whatever the file size.
C28_TailWindow ==
    PollRead =>
        LET frame_size == monitor._n_channels * monitor._sample_width IN
        /\ poll.length <= CHUNK_BYTES
        /\ poll.offset >= monitor._data_offset
        /\ poll.offset + poll.length <= file.size
        /\ poll.length % frame_size = 0
        /\ (poll.offset - monitor._data_offset) % frame_size = 0

\* the same window without the alignment of its start
C28_WindowBounded ==
    PollRead =>
        LET frame_size == monitor._n_channels * monitor._sample_width IN
        /\ poll.length <= CHUNK_BYTES
        /\ poll.offset >= monitor._data_offset
        /\ poll.offset + poll.length <= file.size
        /\ poll.length % frame_size = 0

\* the last poll did not come back above the threshold: the file was
\* missing, its header unparsed, or the window silent
QuietPoll ==
    /\ poll'.op \in {"update", "update_raw"}
    /\ \/ ~file.exists
       \/ ~monitor'._header_parsed
       \/ monitor'._raw_rms <= SILENCE_THRESHOLD

\* C29: is_silent is true exactly when no poll of the preceding
\* SILENCE_TIMEOUT_S seconds came back with a raw RMS above SILENCE_THRESHOLD,
\* counted from the construction of the monitor when no poll ever did; a poll
\* that finds the file missing, unparsed or silent leaves the time it is
\* derived from alone.
C29_SilenceDerived ==
    /\ [](is_silent(monitor, mono) <=>
             /\ \A t \in heard : mono - t > SILENCE_TIMEOUT_S
             /\ heard = {} => mono > SILENCE_TIMEOUT_S)
    /\ [][QuietPoll => monitor'._last_nonsilent = monitor._last_nonsilent]_vars

\* a poll above the threshold, then silence for longer than the timeout with
\* a poll of the silent file at the end
C29_Witness ==
    /\ heard # {}
    /\ is_silent(monitor, mono)
    /\ poll.op = "update_raw"
    /\ monitor._header_parsed
    /\ monitor._raw_rms = 0
    /\ poll.length > 0

\* sample i of a source, zero past its end
SampleAt(data, i) == IF i <= Len(data) THEN data[i] ELSE 0

\* _mix_audio has mixed two readable sources
Mixed == mix_pc = "done" /\ mix_in.mic.readable /\ mix_in.monitor.readable

\* C30: with both sources readable the mix is as long as the longer source,
\* the shorter one counting as zeros past its end, and every mixed sample is
\* floor((mic[i] + monitor[i]) / 2), a signed 16-bit number.
C30_MixAudio ==
    Mixed =>
        LET mic == mix_in.mic.data
            mon == mix_in.monitor.data
        IN /\ mix_out.readable
           /\ Len(mix_out.data) >= Len(mic) /\ Len(mix_out.data) >= Len(mon)
           /\ Len(mix_out.data) \in {Len(mic), Len(mon)}
           /\ \A i \in 1 .. Len(mix_out.data) :
                 LET sum == SampleAt(mic, i) + SampleAt(mon, i) IN
                 /\ 2 * mix_out.data[i] <= sum /\ sum <= 2 * mix_out.data[i] + 1
                 /\ Int16Min <= mix_out.data[i] /\ mix_out.data[i] <= Int16Max

\* a mix of sources of different lengths with the largest sums and an odd
\* negative one
C30_Witness ==
    /\ Mixed
    /\ mix_in.mic.data = <<Int16Max, Int16Min>>
    /\ mix_in.monitor.data = <<Int16Max>>
    /\ mix_out.data = <<Int16Max, -(2^14)>>

\* the same with the floor of an odd negative sum
C30_FloorReached ==
    /\ Mixed
    /\ mix_in.mic.data = <<Int16Min, Int16Min>>
    /\ mix_in.monitor.data = <<1, Int16Min>>
    /\ mix_out.data = <<-(2^14), Int16Min>>

-----------------------------------------------------------------------------
(* Claims about the capture recorders *)

LadderOrder == <<"int", "term", "kill">>

Sigs(s) == [i \in 1 .. Len(s) |-> s[i].sig]

\* stop() has gone past process n
PastProc(n) ==
    /\ cap_last.op \in {"stopping", "stop"}
    /\ \A i \in 1 .. Len(ladder.queue) : ladder.queue[i] # n
    /\ \E i \in 1 .. Len(SiteProcs(cap_site)) : SiteProcs(cap_site)[i] = n

\* the processes of the site that a stop() found running
RunningAtStop ==
    {n \in ProcNames : /\ \E i \in 1 .. Len(SiteProcs(cap_site)) : SiteProcs(cap_site)[i] = n
                       /\ procs[n].spawned /\ ~procs[n].early}

\* C19: in DualRecorder.stop and MeetingRecorder.stop every capture process
\* still running gets the signals in the order interrupt, terminate, kill:
\* terminate exactly 5 s after the interrupt and only if the process had not
\* exited by then, kill exactly 3 s after terminate and only if it had not
\* exited by then; a running process is never passed over and no rung is
\* left out while the process is alive; stop() can always go on, and the
\* time it has spent waiting never exceeds 5 s + 3 s per running process.
C19_TerminationLadder ==
    /\ \A n \in ProcNames :
         LET s == sent[n]
             p == procs[n] IN
         /\ \E k \in 0 .. 3 : Sigs(s) = SubSeq(LadderOrder, 1, k)
         /\ Len(s) >= 1 => p.spawned /\ ~p.early
         /\ Len(s) >= 2 => s[2].at = s[1].at + INT_WAIT_S /\ p.exit_at >= s[2].at
         /\ Len(s) >= 3 => s[3].at = s[2].at + TERM_WAIT_S /\ p.exit_at >= s[3].at
         /\ PastProc(n) /\ p.spawned /\ ~p.early =>
              /\ Len(s) >= 1
              /\ p.on_int > INT_WAIT_S => Len(s) >= 2
              /\ p.on_int > INT_WAIT_S + TERM_WAIT_S /\ p.on_term > TERM_WAIT_S
                   => Len(s) = 3
    /\ ladder.pc \in {"poll", "wait"} =>
         ENABLED (StopPoll \/ StopWaitTick \/ StopWaitReturns \/ StopWaitTimeout
                  \/ DualStopEnd \/ MeetingStopEnd)
    /\ ladder.now <= (INT_WAIT_S + TERM_WAIT_S) * Cardinality(RunningAtStop)

\* MeetingRecorder.stop has returned after killing the microphone capture
\* and terminating a monitor capture that took 2 s to exit
C19_Witness ==
    /\ cap_site = "meeting"
    /\ ladder.pc = "returned"
    /\ Sigs(sent["mic"]) = LadderOrder
    /\ Sigs(sent["monitor"]) = <<"int", "term">>
    /\ ladder.now = 2 * INT_WAIT_S + TERM_WAIT_S + 2

\* C20: a DualRecorder.start() that returns after finding no monitor source,
\* or after failing to spawn the monitor capture, leaves the recorder
\* recording with the microphone stream active, and the stop() that follows
\* returns the microphone buffer and an empty monitor buffer.
C20_MicOnlyCapture ==
    cap_site = "dual" /\ ~cap_last.raised /\ cap_last.mon \in {"no_source", "spawn_fail"} =>
        /\ cap_last.op = "start" =>
             /\ cap_dual.recording
             /\ cap_dual.mic.recording
             /\ cap_dual.mic.stream = "active"
             /\ ~cap_dual.monitor_proc
        /\ cap_last.op = "stop" =>
             /\ cap_last.ret_mic = build_wav_len(cap_dual.mic.frames)
             /\ cap_last.ret_mon = 0

\* C21: once DualRecorder.stop() has returned, the temporary monitor file is
\* gone and _monitor_tmpfile is empty, whatever the capture process left
\* there and however it was stopped.
C21_TmpFileRemoved ==
    cap_site = "dual" /\ cap_last.op \in {"stop", "stop_idle"} =>
        /\ tmp_file.disk = "absent"
        /\ ~cap_dual.tmpfile

\* stop() has returned an empty monitor buffer after killing a capture that
\* had left an unreadable file
C21_Witness ==
    /\ cap_site = "dual"
    /\ cap_last.op = "stop"
    /\ cap_last.mon = "spawned"
    /\ tmp_file.writes = "unreadable"
    /\ Sigs(sent["monitor"]) = LadderOrder
    /\ cap_last.ret_mon = 0
    /\ tmp_file.disk = "absent"

\* a buffer the stop handler counts as captured: not "not b or len(b) < 1000"
NonTrivial(len) == ~TooShort(len)

\* C22: a dual dictation is answered "OK too_short" exactly when both buffers
\* are trivial; a dual pipeline is dispatched only with a non-trivial buffer,
\* and when exactly one buffer is non-trivial every run of the pipeline calls
\* the recognizer on that buffer and not on the other, so that it never ends
\* without having recognized anything.
C22_SingleSourceProceeds ==
    /\ lastOp.op = "dictate" /\ Len(lastOp.lens) = 2 =>
         (lastOp.resp = "OK too_short"
            <=> ~NonTrivial(lastOp.lens[1]) /\ ~NonTrivial(lastOp.lens[2]))
    /\ \A i \in DOMAIN workers :
         LET w == workers[i] IN
         w.kind = "dual" /\ w.pc = "run" =>
            /\ NonTrivial(w.mic) \/ NonTrivial(w.mon)
            /\ \A o \in process_dictation_dual_outcomes(w) :
                 /\ NonTrivial(w.mic) /\ ~NonTrivial(w.mon) =>
                      "asr_mic" \in o[2] /\ "asr_mon" \notin o[2]
                 /\ NonTrivial(w.mon) /\ ~NonTrivial(w.mic) =>
                      "asr_mon" \in o[2] /\ "asr_mic" \notin o[2]

\* a dual pipeline has just run and found no segment in either source
DualNothingDetected ==
    lastOp.op = "run" /\ lastOp.resp = "dual" /\ lastOp.in = "asr_empty"

\* C32: when a dual dictation finds no segment for the primary and none for
\* the secondary source, the pipeline ends without the merge, the cleanup
\* request and the text injection, and without reporting an error to the user.
C32_NothingDetectedNoOp ==
    DualNothingDetected =>
        lastOp.eff \cap {"merge", "cleanup", "type", "notify_error"} = {}

\* the same without the report to the user
C32_NothingDetectedEndsEarly ==
    DualNothingDetected =>
        lastOp.eff \cap {"merge", "cleanup", "type", "notify_done"} = {}

\* a request was made and the generation service did not answer it
ServiceFailed == ~IsBlank(gen.text) /\ gen.service \in {"connect_error", "error"}

\* C23: when the request of a text-generation call fails, the call does not
\* raise and returns its input text unchanged, and the pipeline hands that
\* text to its delivery step.
C23_GenerationFallback ==
    ServiceFailed =>
        /\ gen_pc \in {"returned", "delivered"} =>
              ~gen_ret.raised /\ gen_ret.value = gen.text
        /\ gen_pc = "delivered" => gen_typed = gen.text

\* C24: _build_wav reads the frame buffer only when the stream is closed
\* and no callback is running, and a callback appends only while the stream
\* is still active, in every interleaving of the callback context with
\* start() and stop().
C24_ReadAfterStop ==
    /\ ar_main \in {"stop_build", "stop_read"} => ar.stream = "none" /\ ar_cb = "idle"
    /\ ar_cb = "append" => ar.stream = "active"

\* stop() reads a buffer that holds a block, after a callback had been
\* running when stop() was called
C24_Witness ==
    /\ ar_main = "stop_read"
    /\ ar.frames > 0
    /\ ar.stream = "none"

\* stop() has returned for the second time since start() was last called
StoppedAgain == ar_main = "idle" /\ ar_stops >= 2

\* C33: a captured buffer is handed out at most once: AudioRecorder.stop()
\* called without a start() in between returns an empty buffer, never the
\* frames of an earlier recording.
C33_BufferHandedOnce ==
    StoppedAgain => ar_ret = 0

\* C34: force_stop issued while the session is processing changes no field
\* of the session and no recorder, and leaves the pipeline threads as they
\* are; the thread still ends its pipeline and the session stops processing.
C34_ForceStopWhileProcessing ==
    /\ [][(lastOp'.op = "stop" /\ _processing)
            => /\ UNCHANGED <<sessionFields, recorderFields, workers>>
               /\ workers # <<>>
               /\ lastOp'.eff = {}]_vars
    /\ (_processing /\ lastOp.op = "stop") ~> ~_processing

\* force_stop has answered while a pipeline thread was in its try block
C34_Witness ==
    /\ lastOp.op = "stop"
    /\ _processing
    /\ \E i \in DOMAIN workers : workers[i].pc = "run"

\* C35: force_stop answers that the session is already idle only when the
\* session is idle: neither recording nor processing, with no pipeline
\* thread still in its try block.
C35_ForceStopResponse ==
    (lastOp.op = "stop" /\ lastOp.resp = "OK already_idle") =>
        /\ ~_recording
        /\ ~_processing
        /\ \A i \in DOMAIN workers : workers[i].pc # "run"

\* the same for the recording flag alone
C35_AlreadyIdleNotRecording ==
    (lastOp.op = "stop" /\ lastOp.resp = "OK already_idle") => ~_recording

\* C36: a dictate or screenshot toggle from idle whose capture fails to
\* start, and which is answered ERR, leaves the session idle with no mode.
C36_FailedStartStaysIdle ==
    (lastOp.op \in {"dictate", "screenshot"} /\ lastOp.resp = "ERR") =>
        ~_recording /\ _mode = ""

\* a capture process spawned by a recorder of the app is running
CaptureProcessRunning ==
    \/ MeetingProcs(_meeting_recorder) > 0
    \/ DualProcs(_dual_recorder) > 0
    \/ unreferenced.procs

\* C37: whenever the session is idle no capture process spawned by the app
\* is still running, after every sequence of commands, a meeting start whose
\* second capture process cannot be spawned included.
C37_NoProcessWhenIdle ==
    (~_recording /\ ~_processing) => ~CaptureProcessRunning

\* C38: a dual pipeline that was dispatched sends at least one of its two
\* buffers to the recognizer, whatever the lengths of the buffers.
C38_DispatchedDualRecognizes ==
    (lastOp.op = "run" /\ lastOp.resp = "dual") =>
        lastOp.eff \cap {"asr_mic", "asr_mon"} # {}

\* the same for the pipelines dispatched with a buffer of more than
\* MIN_WAV_BYTES bytes
C38_LongBufferRecognized ==
    \A i \in DOMAIN workers :
       LET w == workers[i] IN
       (w.kind = "dual" /\ w.pc = "run" /\ (w.mic > MIN_WAV_BYTES \/ w.mon > MIN_WAV_BYTES))
          => \A o \in process_dictation_dual_outcomes(w) :
                o[2] \cap {"asr_mic", "asr_mon"} # {}

\* C40: in HotkeyListener dictation and screenshot are never active at the
\* same time, after every sequence of key events and in every mode.
C40_OneHotkeyActive ==
    ~(hk._dictation_active /\ hk._screenshot_active)

\* the same in the modes hold and both
C40_OneActiveWhenHeld ==
    hk_config.mode \in {"hold", "both"} =>
        ~(hk._dictation_active /\ hk._screenshot_active)

\* the state of the session as the status command names it
SessionState ==
    IF _processing THEN "processing" ELSE IF _recording THEN "recording" ELSE "idle"

\* C25: the response to a status command is "STATUS <state> mode=<mode>"
\* with the current state and the current mode of the session.
C25_StatusFormat ==
    lastOp.op = "status" =>
        lastOp.resp = "STATUS " \o SessionState \o " mode=" \o _mode

KnownCommands == {"dictate", "screenshot", "meeting", "status", "stop", "ping", "quit"}

C27_OwnDirectory ==
    \A i, j \in 1 .. Len(session_dirs) :
        i # j => session_dirs[i] # session_dirs[j]

====
